---- MODULE Spec2Model ----
(***************************************************************************)
(* Account lifecycle of the movie recommendation API: registration, login, *)
(* e-mail verification by code, password reset by code and profile update, *)
(* over the User collection of the document store; and the watchlists and  *)
(* reviews of the accounts, over the Watchlist and Review collections.     *)
(*                                                                         *)
(* A request handler is an async function: it runs atomically between two  *)
(* awaited store operations, and other requests run in between.  Each      *)
(* action below is one such atomic piece: one store operation together     *)
(* with the synchronous code that follows it up to the next store          *)
(* operation or up to the response.  Mail delivery and bcrypt touch no     *)
(* shared state and are folded into the piece that awaits them.            *)
(***************************************************************************)
EXTENDS Integers, Sequences, FiniteSets, TLC

VARIABLES users, now, inflight, resp, budget, capacity, watchlists, reviews

vars == <<users, now, inflight, resp, budget, capacity, watchlists, reviews>>

---------------------------------------------------------------------------
(* Bounds *)

\* number of accounts the store can hold
MaxUsers == 2
\* the clock runs from 0 to MaxTime
MaxTime == 1
\* number of requests served in one behaviour
MaxRequests == 2
\* number of requests that can be between two awaits at the same time
MaxInflight == 2

\* number of watchlists the store can hold
MaxWatchlists == 2
\* movie ids run from 1 to MaxMovies
MaxMovies == 3

\* number of reviews the store can hold
MaxReviews == 2

\* 60 * 60 * 1000 ms, the lifetime of a code, is one unit of the clock
HOUR == 1

Usernames == {"ana", "bob"}
\* e-mail addresses as clients submit them: ana writes hers in capitals
Emails == {"ANA@x.com", "bob@x.com"}
Passwords == {"secret1", "secret2"}
\* the codes Math.random() can produce, as the strings toString() gives
Codes == {"100000", "999999"}
\* the JSON object { "$ne": null } in place of a code: express.json() parses
\* it and the handler passes it to the query as it is
NeNull == "{$ne:null}"
\* an empty or missing field of the body
Empty == ""
\* a session token as the string the client holds, put in a code field
TokenAsCode == "eyJhbGciOiJIUzI1NiJ9.eyJ1c2VySWQiOjF9.c2ln"
\* what a client can put in the code field of a body
SubmittedCodes == Codes \cup {NeNull, Empty, TokenAsCode}

Slots == 1..MaxInflight

\* a field that is null or absent in the stored document; both read back as
\* null through the schema default
Null == "null"
\* the same for a Date field
NullDate == -1
\* no token in a response body, no Authorization header in a request
NoToken == [kind |-> "none"]
\* a token jwt.verify rejects: bad signature or expired
BadToken == [kind |-> "bad"]

---------------------------------------------------------------------------
(* Credential and token codec *)

\* schema setter lowercase: true, run on saved values, query filters and updates
Lower(email) == IF email = "ANA@x.com" THEN "ana@x.com" ELSE email

\* bcrypt.hash(password, 12); the salt is left out, as comparePassword
\* depends on the hashed password alone.  The hash of a hash is a third value
HashPassword(password) == "$2b$12$" \o password

\* a variant of ComparePassword that accepts every candidate
ComparePasswordAnything(candidatePassword, stored) == TRUE

\* bcrypt.compare(candidatePassword, this.password)
ComparePassword(candidatePassword, stored) == stored = HashPassword(candidatePassword)

\* a variant of PreSave without the isModified guard: every save hashes the
\* password again
PreSaveAlways(password, isModified) == HashPassword(password)

\* userSchema.pre("save"): the password is hashed when the path is modified,
\* and left as it is otherwise
PreSave(password, isModified) == IF ~isModified THEN password ELSE HashPassword(password)

\* jwt.sign({ userId }, JWT_SECRET, ...)
GenerateToken(userId) == [kind |-> "jwt", userId |-> userId]

---------------------------------------------------------------------------
(* Store queries *)

UserIds == DOMAIN users

\* a query condition on a String path: a string matches the equal value, the
\* operator object { $ne: null } matches every value that is present
Matches(stored, condition) ==
    IF condition = NeNull THEN stored # Null ELSE stored = condition

\* a variant of LaterThanNow with $gte in place of $gt
NotEarlierThanNow(expires) == expires # NullDate /\ expires >= now

\* the condition { $gt: Date.now() } on a Date path
LaterThanNow(expires) == expires # NullDate /\ expires > now

\* User.findOne({ $or: [{ email }, { username }] })
FindByEmailOrUsername(email, username) ==
    {i \in UserIds : users[i].email = Lower(email) \/ users[i].username = username}

\* User.findOne({ email })
FindByEmail(email) == {i \in UserIds : users[i].email = Lower(email)}

\* User.findOne({ email, emailVerificationToken: code,
\*                emailVerificationExpires: { $gt: Date.now() } })
FindByVerificationCode(email, code) ==
    {i \in UserIds : /\ users[i].email = Lower(email)
                     /\ Matches(users[i].emailVerificationToken, code)
                     /\ LaterThanNow(users[i].emailVerificationExpires)}

\* User.findOne({ email, passwordResetToken: code,
\*                passwordResetExpires: { $gt: Date.now() } })
FindByResetCode(email, code) ==
    {i \in UserIds : /\ users[i].email = Lower(email)
                     /\ Matches(users[i].passwordResetToken, code)
                     /\ LaterThanNow(users[i].passwordResetExpires)}

\* User.findOne({ username, _id: { $ne: user._id } })
FindOtherByUsername(username, id) ==
    {i \in UserIds : i # id /\ users[i].username = username}

\* User.findOne({ email, _id: { $ne: user._id } })
FindOtherByEmail(email, id) ==
    {i \in UserIds : i # id /\ users[i].email = Lower(email)}

\* a variant of UniqueIndexesAllow for a collection without unique indexes
NoUniqueIndexes(id, username, email) == TRUE

\* the unique indexes on username and email: a write that would leave two
\* documents with the same username or the same email is rejected (E11000)
UniqueIndexesAllow(id, username, email) ==
    \A i \in UserIds : i # id => users[i].username # username /\ users[i].email # email

\* a variant of Authenticate that reads the payload without jwt.verify, so
\* that a forged token for the first account is taken for a token of it
AuthenticateDecodeOnly(token) ==
    IF token.kind = "jwt" /\ token.userId \in UserIds THEN token.userId
    ELSE IF token.kind = "bad" /\ UserIds # {} THEN 1 ELSE 0

\* the auth middleware: the id of the account the bearer token names, or 0
\* when jwt.verify throws or User.findById finds no such account
Authenticate(token) ==
    IF token.kind = "jwt" /\ token.userId \in UserIds THEN token.userId ELSE 0

\* a six-digit code sent as the bearer token: jwt.verify rejects it as malformed
CodeAsToken(code) == [kind |-> "code", code |-> code]

\* what a client can put in the Authorization header; a signed token can name
\* an account that is not in the store, which User.findById answers with null
AuthHeaders ==
    {NoToken, BadToken} \cup {GenerateToken(i) : i \in 1..MaxUsers}
      \cup {CodeAsToken(code) : code \in Codes}

---------------------------------------------------------------------------
(* Responses *)

Idle == [op |-> "idle"]

\* what the transporter does with a mail: sendMail resolves or rejects
Deliveries == {"sent", "failed"}

\* the response to the request req of route op: delivery records what became
\* of the mail the request sent, the other fields are the status and the JSON
\* body (emailVerificationRequired is "true", "false" or absent)
Response(op, req, status, success, message) ==
    [op |-> op, status |-> status, success |-> success,
     message |-> message, token |-> NoToken,
     emailVerificationRequired |-> Null, email |-> Null, delivery |-> "none"]

\* no request was answered yet
NoResp == Response("none", <<>>, 0, FALSE, "")

\* the catch block of a handler
ServerError(op, req) == Response(op, req, 500, FALSE, "Server error")

\* the 401 responses of the auth middleware
Unauthorized(op, req, token) ==
    Response(op, req, 401, FALSE,
             IF token = NoToken THEN "No token provided, authorization denied"
             ELSE "Token is not valid")

InFlight == {r \in Slots : inflight[r] # Idle}

\* a new request is accepted while the budget of requests lasts and fewer
\* than capacity requests are being served
CanStart ==
    /\ budget > 0
    /\ Cardinality(InFlight) < capacity
    /\ budget' = budget - 1
    /\ UNCHANGED capacity

\* the slot a new request takes: the first one that is free
FreeSlot(r) == inflight[r] = Idle /\ \A q \in Slots : q < r => inflight[q] # Idle

\* a request that was accepted before goes on
Continue == UNCHANGED <<budget, capacity>>

\* a request is answered
Reply(body) == resp' = body

\* the request takes slot r until its next store operation
Await(r, frame) ==
    /\ inflight' = [inflight EXCEPT ![r] = frame]
    /\ UNCHANGED resp

\* time passes
Tick ==
    /\ now < MaxTime
    /\ now' = now + 1
    /\ UNCHANGED <<users, inflight, resp, budget, capacity, watchlists, reviews>>

---------------------------------------------------------------------------
(* POST /auth/register *)

RegisterDuplicate(req) == Response("register", req, 400, FALSE, "User already exists")

\* a variant of RegisterCreated that answers a failed delivery with an error
RegisterCreatedUnlessMailFails(req, id, delivery) ==
    IF delivery = "failed"
    THEN [Response("register", req, 500, FALSE, "Failed to send verification code")
          EXCEPT !.delivery = delivery]
    ELSE [Response("register", req, 201, TRUE,
                   "User created successfully. Please check your email for the verification code.")
          EXCEPT !.token = GenerateToken(id),
                 !.emailVerificationRequired = "true",
                 !.delivery = delivery]

\* the 201 response; a failed delivery is caught and logged
RegisterCreated(req, id, delivery) ==
    [Response("register", req, 201, TRUE,
              "User created successfully. Please check your email for the verification code.")
     EXCEPT !.token = GenerateToken(id),
            !.emailVerificationRequired = "true",
            !.delivery = delivery]

\* a variant of NewUser that stores the code without its expiry
NewUserWithoutExpiry(req, verificationCode, expires) ==
    [username |-> req.username,
     email |-> Lower(req.email),
     password |-> PreSave(req.password, TRUE),
     isEmailVerified |-> FALSE,
     emailVerificationToken |-> verificationCode,
     emailVerificationExpires |-> NullDate,
     passwordResetToken |-> Null,
     passwordResetExpires |-> NullDate,
     favoriteMovies |-> <<>>,
     watchedMovies |-> <<>>]

\* the document new User({ username, email, password }) with its code,
\* as user.save() inserts it
NewUser(req, verificationCode, expires) ==
    [username |-> req.username,
     email |-> Lower(req.email),
     password |-> PreSave(req.password, TRUE),
     isEmailVerified |-> FALSE,
     emailVerificationToken |-> verificationCode,
     emailVerificationExpires |-> expires,
     passwordResetToken |-> Null,
     passwordResetExpires |-> NullDate,
     favoriteMovies |-> <<>>,
     watchedMovies |-> <<>>]

\* the existence check and the code up to await user.save()
RegisterFind(r, username, email, password) ==
    LET req == [username |-> username, email |-> email, password |-> password]
    IN  /\ CanStart
        /\ FreeSlot(r)
        /\ IF FindByEmailOrUsername(email, username) # {}
           THEN /\ Reply(RegisterDuplicate(req))
                /\ UNCHANGED inflight
           ELSE Await(r, [op |-> "register", req |-> req, expires |-> now + HOUR])
        /\ UNCHANGED <<users, now, watchlists, reviews>>

\* user.save(), the verification mail and the response; the code is drawn
\* here, as nothing reads it before
RegisterSave(r, verificationCode, delivery) ==
    /\ inflight[r].op = "register"
    /\ Continue
    /\ LET req == inflight[r].req
           user == NewUser(req, verificationCode, inflight[r].expires)
           id == Len(users) + 1
       IN  IF UniqueIndexesAllow(id, user.username, user.email)
           THEN /\ Len(users) < MaxUsers
                /\ users' = Append(users, user)
                /\ Reply(RegisterCreated(req, id, delivery))
           ELSE /\ Reply(ServerError("register", req))
                /\ UNCHANGED users
    /\ inflight' = [inflight EXCEPT ![r] = Idle]
    /\ UNCHANGED <<now, watchlists, reviews>>

---------------------------------------------------------------------------
(* POST /auth/login *)

\* a variant of LoginNoUser that tells the client the account is missing
LoginNoUserRevealed(req) == Response("login", req, 404, FALSE, "User not found")

LoginNoUser(req) == Response("login", req, 400, FALSE, "Invalid credentials")

\* a variant of LoginBadPassword that tells a client without the password
\* that the email is not verified
LoginBadPasswordAskingVerification(req) ==
    [Response("login", req, 400, FALSE, "Invalid credentials")
     EXCEPT !.emailVerificationRequired = "true"]

LoginBadPassword(req) == Response("login", req, 400, FALSE, "Invalid credentials")

LoginNotVerified(req, user) ==
    [Response("login", req, 403, FALSE,
              "Please verify your email address before logging in. Check your inbox for the verification code.")
     EXCEPT !.emailVerificationRequired = "true",
            !.email = user.email]

\* a variant of LoginSuccessful that leaves the token out of the body
LoginSuccessfulWithoutToken(req, id) ==
    [Response("login", req, 200, TRUE, "Login successful")
     EXCEPT !.emailVerificationRequired = "false"]

LoginSuccessful(req, id) ==
    [Response("login", req, 200, TRUE, "Login successful")
     EXCEPT !.token = GenerateToken(id),
            !.emailVerificationRequired = "false"]

\* a variant of LoginChecks that forgets the check of isEmailVerified
LoginChecksWithoutVerification(req, id) ==
    IF ~ComparePassword(req.password, users[id].password) THEN LoginBadPassword(req)
    ELSE LoginSuccessful(req, id)

\* the checks the handler makes on the account it found
LoginChecks(req, id) ==
    IF ~ComparePassword(req.password, users[id].password) THEN LoginBadPassword(req)
    ELSE IF ~users[id].isEmailVerified THEN LoginNotVerified(req, users[id])
    ELSE LoginSuccessful(req, id)

\* the whole handler: its one store operation is User.findOne({ email })
Login(email, password) ==
    LET req == [email |-> email, password |-> password]
        found == FindByEmail(email)
    IN  /\ CanStart
        /\ IF found = {}
           THEN Reply(LoginNoUser(req))
           ELSE \E id \in found : Reply(LoginChecks(req, id))
        /\ UNCHANGED <<users, now, inflight, watchlists, reviews>>

---------------------------------------------------------------------------
(* POST /auth/verify-email *)

VerifyEmailRequired(req) ==
    Response("verify-email", req, 400, FALSE, "Verification code and email are required")

VerifyEmailInvalid(req) ==
    Response("verify-email", req, 400, FALSE, "Invalid or expired verification code")

\* the 200 response; a failed welcome mail is caught and logged
VerifyEmailVerified(req, delivery) ==
    [Response("verify-email", req, 200, TRUE,
              "Email verified successfully! Welcome to StreamVibe.")
     EXCEPT !.delivery = delivery]

\* the lookup of the account by email and valid code
VerifyEmailFind(r, email, code) ==
    LET req == [email |-> email, code |-> code]
        found == FindByVerificationCode(email, code)
    IN  /\ CanStart
        /\ FreeSlot(r)
        /\ IF code = Empty
           THEN Reply(VerifyEmailRequired(req)) /\ UNCHANGED inflight
           ELSE IF found = {}
           THEN Reply(VerifyEmailInvalid(req)) /\ UNCHANGED inflight
           ELSE \E id \in found :
                  Await(r, [op |-> "verify-email", req |-> req, id |-> id])
        /\ UNCHANGED <<users, now, watchlists, reviews>>

\* a variant of VerifiedUser that leaves the code in place
VerifiedUserKeepingCode(user) == [user EXCEPT !.isEmailVerified = TRUE]

\* what user.save() writes: the three modified paths of the document
VerifiedUser(user) ==
    [user EXCEPT !.isEmailVerified = TRUE,
                 !.emailVerificationToken = Null,
                 !.emailVerificationExpires = NullDate,
                 !.password = PreSave(@, FALSE)]

\* user.save(), the welcome mail and the response
VerifyEmailSave(r, delivery) ==
    /\ inflight[r].op = "verify-email"
    /\ Continue
    /\ users' = [users EXCEPT ![inflight[r].id] = VerifiedUser(@)]
    /\ Reply(VerifyEmailVerified(inflight[r].req, delivery))
    /\ inflight' = [inflight EXCEPT ![r] = Idle]
    /\ UNCHANGED <<now, watchlists, reviews>>

---------------------------------------------------------------------------
(* POST /auth/resend-verification-code and POST /auth/resend-verification *)

ResendUserNotFound(op, req) == Response(op, req, 400, FALSE, "User not found")

ResendAlreadyVerified(op, req) == Response(op, req, 400, FALSE, "Email is already verified")

\* a variant of ResendSent that catches and logs a failed delivery
ResendSentWhateverDelivery(op, req, delivery) ==
    [Response(op, req, 200, TRUE, "Verification code sent successfully")
     EXCEPT !.delivery = delivery]

\* the response after the mail: an error when the delivery failed
ResendSent(op, req, delivery) ==
    [(IF delivery = "sent"
      THEN Response(op, req, 200, TRUE, "Verification code sent successfully")
      ELSE Response(op, req, 500, FALSE, "Failed to send verification code"))
     EXCEPT !.delivery = delivery]

\* a variant of ResendChecks that reissues a code for a verified account too
ResendChecksAlsoVerified(r, op, req, id) ==
    Await(r, [op |-> op, req |-> req, id |-> id, expires |-> now + HOUR])

\* the checks on the account found, up to await user.save()
ResendChecks(r, op, req, id) ==
    IF users[id].isEmailVerified
    THEN Reply(ResendAlreadyVerified(op, req)) /\ UNCHANGED inflight
    ELSE Await(r, [op |-> op, req |-> req, id |-> id, expires |-> now + HOUR])

\* the unauthenticated route: the account is looked up by email
ResendByEmailFind(r, email) ==
    LET op == "resend-verification-code"
        req == [email |-> email]
        found == FindByEmail(email)
    IN  /\ CanStart
        /\ FreeSlot(r)
        /\ IF found = {}
           THEN Reply(ResendUserNotFound(op, req)) /\ UNCHANGED inflight
           ELSE \E id \in found : ResendChecks(r, op, req, id)
        /\ UNCHANGED <<users, now, watchlists, reviews>>

\* the authenticated route: the account is the one the auth middleware loaded
ResendByTokenFind(r, token) ==
    LET op == "resend-verification"
        req == [token |-> token]
        id == Authenticate(token)
    IN  /\ CanStart
        /\ FreeSlot(r)
        /\ IF id = 0
           THEN Reply(Unauthorized(op, req, token)) /\ UNCHANGED inflight
           ELSE ResendChecks(r, op, req, id)
        /\ UNCHANGED <<users, now, watchlists, reviews>>

\* a variant of ReissuedUser that leaves the expiry of the previous code
ReissuedUserKeepingExpiry(user, verificationCode, expires) ==
    [user EXCEPT !.emailVerificationToken = verificationCode]

\* what user.save() writes: the new code and its expiry
ReissuedUser(user, verificationCode, expires) ==
    [user EXCEPT !.emailVerificationToken = verificationCode,
                 !.emailVerificationExpires = expires,
                 !.password = PreSave(@, FALSE)]

\* user.save(), the verification mail and the response, of both routes
ResendSave(r, verificationCode, delivery) ==
    /\ inflight[r].op \in {"resend-verification-code", "resend-verification"}
    /\ Continue
    /\ users' = [users EXCEPT ![inflight[r].id] =
                    ReissuedUser(@, verificationCode, inflight[r].expires)]
    /\ Reply(ResendSent(inflight[r].op, inflight[r].req, delivery))
    /\ inflight' = [inflight EXCEPT ![r] = Idle]
    /\ UNCHANGED <<now, watchlists, reviews>>

---------------------------------------------------------------------------
(* POST /auth/forgot-password *)

\* the response when no account has the email
ForgotNoUser(req) ==
    Response("forgot-password", req, 200, TRUE,
             "If an account with that email exists, a password reset code has been sent.")

\* the response after the mail: an error when the delivery failed
ForgotSent(req, delivery) ==
    [(IF delivery = "sent"
      THEN Response("forgot-password", req, 200, TRUE, "Password reset code sent successfully")
      ELSE Response("forgot-password", req, 500, FALSE, "Failed to send password reset code"))
     EXCEPT !.delivery = delivery]

\* the lookup by email, up to await user.save()
ForgotPasswordFind(r, email) ==
    LET req == [email |-> email]
        found == FindByEmail(email)
    IN  /\ CanStart
        /\ FreeSlot(r)
        /\ IF found = {}
           THEN Reply(ForgotNoUser(req)) /\ UNCHANGED inflight
           ELSE \E id \in found :
                  Await(r, [op |-> "forgot-password", req |-> req, id |-> id,
                            expires |-> now + HOUR])
        /\ UNCHANGED <<users, now, watchlists, reviews>>

\* a variant of ResetPendingUser that keeps the reset code in the fields of
\* the verification code as well
ResetPendingUserSharingFields(user, resetCode, expires) ==
    [user EXCEPT !.passwordResetToken = resetCode,
                 !.passwordResetExpires = expires,
                 !.emailVerificationToken = resetCode,
                 !.emailVerificationExpires = expires]

\* what user.save() writes: the reset code and its expiry
ResetPendingUser(user, resetCode, expires) ==
    [user EXCEPT !.passwordResetToken = resetCode,
                 !.passwordResetExpires = expires,
                 !.password = PreSave(@, FALSE)]

\* user.save(), the reset mail and the response
ForgotPasswordSave(r, resetCode, delivery) ==
    /\ inflight[r].op = "forgot-password"
    /\ Continue
    /\ users' = [users EXCEPT ![inflight[r].id] =
                    ResetPendingUser(@, resetCode, inflight[r].expires)]
    /\ Reply(ForgotSent(inflight[r].req, delivery))
    /\ inflight' = [inflight EXCEPT ![r] = Idle]
    /\ UNCHANGED <<now, watchlists, reviews>>

---------------------------------------------------------------------------
(* POST /auth/reset-password *)

ResetRequired(req) ==
    Response("reset-password", req, 400, FALSE, "Email, code, and new password are required")

ResetInvalid(req) ==
    Response("reset-password", req, 400, FALSE, "Invalid or expired reset code")

ResetDone(req) == Response("reset-password", req, 200, TRUE, "Password reset successfully")

\* the lookup of the account by email and valid reset code
ResetPasswordFind(r, email, code, newPassword) ==
    LET req == [email |-> email, code |-> code, newPassword |-> newPassword]
        found == FindByResetCode(email, code)
    IN  /\ CanStart
        /\ FreeSlot(r)
        /\ IF code = Empty
           THEN Reply(ResetRequired(req)) /\ UNCHANGED inflight
           ELSE IF found = {}
           THEN Reply(ResetInvalid(req)) /\ UNCHANGED inflight
           ELSE \E id \in found :
                  Await(r, [op |-> "reset-password", req |-> req, id |-> id])
        /\ UNCHANGED <<users, now, watchlists, reviews>>

\* a variant of PasswordResetUser that leaves the reset code in place
PasswordResetUserKeepingCode(user, newPassword) ==
    [user EXCEPT !.password = HashPassword(newPassword)]

\* what user.save() writes: the password, which the assignment of the clear
\* newPassword modified and the pre-save hook so hashes, and the cleared
\* reset code
PasswordResetUser(user, newPassword) ==
    [user EXCEPT !.password = PreSave(newPassword, TRUE),
                 !.passwordResetToken = Null,
                 !.passwordResetExpires = NullDate]

\* user.save() and the response
ResetPasswordSave(r) ==
    /\ inflight[r].op = "reset-password"
    /\ Continue
    /\ users' = [users EXCEPT ![inflight[r].id] =
                    PasswordResetUser(@, inflight[r].req.newPassword)]
    /\ Reply(ResetDone(inflight[r].req))
    /\ inflight' = [inflight EXCEPT ![r] = Idle]
    /\ UNCHANGED <<now, watchlists, reviews>>

---------------------------------------------------------------------------
(* PUT /users/profile: the username and email it writes *)

ProfileUsernameExists(req) == Response("profile", req, 400, FALSE, "Username already exists")

ProfileEmailExists(req) == Response("profile", req, 400, FALSE, "Email already exists")

\* the fields of the account that the profile responses list one by one;
\* avatar, bio, preferences and the timestamps are paths the model does not hold
ProfileView(user) ==
    [username |-> user.username,
     email |-> user.email,
     isEmailVerified |-> user.isEmailVerified,
     favoriteMovies |-> user.favoriteMovies,
     watchedMovies |-> user.watchedMovies]

ProfileUpdated(req, user) ==
    Response("profile", req, 200, TRUE, "Profile updated successfully")
      @@ [user |-> ProfileView(user)]

\* the catch block answers with error.message
ProfileDuplicateKey(req) ==
    Response("profile", req, 500, FALSE, "E11000 duplicate key error")

\* the next store operation of the handler: the lookup of the username when it
\* changes, then the lookup of the email when it changes, then the update
ProfileNext(r, req, id, checkUsername, checkEmail) ==
    Await(r, [op |-> "profile", req |-> req, id |-> id, checkEmail |-> checkEmail,
              pc |-> IF checkUsername THEN "username"
                     ELSE IF checkEmail THEN "email" ELSE "update"])

\* the auth middleware, which loads the account, and the two comparisons
\* with the loaded account
ProfileAuth(r, token, username, email) ==
    LET req == [token |-> token, username |-> username, email |-> email]
        id == Authenticate(token)
    IN  /\ CanStart
        /\ FreeSlot(r)
        /\ IF id = 0
           THEN Reply(Unauthorized("profile", req, token)) /\ UNCHANGED inflight
           ELSE ProfileNext(r, req, id,
                            username # Empty /\ username # users[id].username,
                            email # Empty /\ email # users[id].email)
        /\ UNCHANGED <<users, now, watchlists, reviews>>

\* User.findOne({ username, _id: { $ne: user._id } })
ProfileCheckUsername(r) ==
    /\ inflight[r].op = "profile"
    /\ Continue
    /\ inflight[r].pc = "username"
    /\ IF FindOtherByUsername(inflight[r].req.username, inflight[r].id) # {}
       THEN /\ Reply(ProfileUsernameExists(inflight[r].req))
            /\ inflight' = [inflight EXCEPT ![r] = Idle]
       ELSE ProfileNext(r, inflight[r].req, inflight[r].id, FALSE, inflight[r].checkEmail)
    /\ UNCHANGED <<users, now, watchlists, reviews>>

\* User.findOne({ email, _id: { $ne: user._id } })
ProfileCheckEmail(r) ==
    /\ inflight[r].op = "profile"
    /\ Continue
    /\ inflight[r].pc = "email"
    /\ IF FindOtherByEmail(inflight[r].req.email, inflight[r].id) # {}
       THEN /\ Reply(ProfileEmailExists(inflight[r].req))
            /\ inflight' = [inflight EXCEPT ![r] = Idle]
       ELSE ProfileNext(r, inflight[r].req, inflight[r].id, FALSE, FALSE)
    /\ UNCHANGED <<users, now, watchlists, reviews>>

\* a variant of UpdatedUser that asks for a new verification when the email
\* changes
UpdatedUserUnverified(user, req) ==
    [user EXCEPT !.username = IF req.username # Empty THEN req.username ELSE @,
                 !.email = IF req.email # Empty THEN Lower(req.email) ELSE @,
                 !.isEmailVerified = IF req.email # Empty THEN FALSE ELSE @]

\* the document after updateData is applied: username and email when given
UpdatedUser(user, req) ==
    [user EXCEPT !.username = IF req.username # Empty THEN req.username ELSE @,
                 !.email = IF req.email # Empty THEN Lower(req.email) ELSE @]

\* User.findByIdAndUpdate(user._id, updateData, ...) and the response
ProfileUpdate(r) ==
    /\ inflight[r].op = "profile"
    /\ Continue
    /\ inflight[r].pc = "update"
    /\ LET id == inflight[r].id
           user == UpdatedUser(users[id], inflight[r].req)
       IN  IF UniqueIndexesAllow(id, user.username, user.email)
           THEN /\ users' = [users EXCEPT ![id] = user]
                /\ Reply(ProfileUpdated(inflight[r].req, user))
           ELSE /\ Reply(ProfileDuplicateKey(inflight[r].req))
                /\ UNCHANGED users
    /\ inflight' = [inflight EXCEPT ![r] = Idle]
    /\ UNCHANGED <<now, watchlists, reviews>>

---------------------------------------------------------------------------
(* POST /users/avatar, DELETE /users/avatar and the routes that read the
   account: GET /users/profile, /users/profile/minimal, /auth/me and
   /auth/verification-status *)

\* the document a query with .select("-password") returns
WithoutPassword(user) == [f \in DOMAIN user \ {"password"} |-> user[f]]

AvatarNoFile(req) == Response("avatar", req, 400, FALSE, "No file uploaded")

\* the 200 response of POST /avatar: user is the updated document
AvatarUploaded(req, user) ==
    Response("avatar", req, 200, TRUE, "Avatar uploaded successfully")
      @@ [user |-> WithoutPassword(user)]

\* the 200 response of DELETE /avatar: user is the updated document
AvatarDeleted(req, user) ==
    Response("delete-avatar", req, 200, TRUE, "Avatar deleted successfully")
      @@ [user |-> WithoutPassword(user)]

\* the auth middleware and the check of req.file
UploadAvatarAuth(r, token, file) ==
    LET req == [token |-> token, file |-> file]
        id == Authenticate(token)
    IN  /\ CanStart
        /\ FreeSlot(r)
        /\ IF id = 0
           THEN Reply(Unauthorized("avatar", req, token)) /\ UNCHANGED inflight
           ELSE IF ~file
           THEN Reply(AvatarNoFile(req)) /\ UNCHANGED inflight
           ELSE Await(r, [op |-> "avatar", req |-> req, id |-> id])
        /\ UNCHANGED <<users, now, watchlists, reviews>>

\* User.findByIdAndUpdate(req.user._id, { avatar: avatarUrl }, { new: true })
\* and the response; the update writes the avatar path alone
UploadAvatarUpdate(r) ==
    /\ inflight[r].op = "avatar"
    /\ Continue
    /\ Reply(AvatarUploaded(inflight[r].req, users[inflight[r].id]))
    /\ inflight' = [inflight EXCEPT ![r] = Idle]
    /\ UNCHANGED <<users, now, watchlists, reviews>>

\* the auth middleware of DELETE /avatar
DeleteAvatarAuth(r, token) ==
    LET req == [token |-> token]
        id == Authenticate(token)
    IN  /\ CanStart
        /\ FreeSlot(r)
        /\ IF id = 0
           THEN Reply(Unauthorized("delete-avatar", req, token)) /\ UNCHANGED inflight
           ELSE Await(r, [op |-> "delete-avatar", req |-> req, id |-> id])
        /\ UNCHANGED <<users, now, watchlists, reviews>>

\* User.findByIdAndUpdate(req.user._id, { $unset: { avatar: 1 } }, { new: true })
\* and the response
DeleteAvatarUpdate(r) ==
    /\ inflight[r].op = "delete-avatar"
    /\ Continue
    /\ Reply(AvatarDeleted(inflight[r].req, users[inflight[r].id]))
    /\ inflight' = [inflight EXCEPT ![r] = Idle]
    /\ UNCHANGED <<users, now, watchlists, reviews>>

\* the body of GET /users/profile
ProfileRetrieved(req, user) ==
    Response("get-profile", req, 200, TRUE, "Profile retrieved successfully")
      @@ [user |-> ProfileView(user)]

\* the body of GET /users/profile/minimal
MinimalProfile(req, user) ==
    Response("get-profile-minimal", req, 200, TRUE, "")
      @@ [user |-> [username |-> user.username,
                    isEmailVerified |-> user.isEmailVerified]]

\* the body of GET /auth/me
Me(req, user) ==
    Response("me", req, 200, TRUE, "")
      @@ [user |-> [username |-> user.username,
                    email |-> user.email,
                    isEmailVerified |-> user.isEmailVerified]]

\* the body of GET /auth/verification-status
VerificationStatus(req, user) ==
    [Response("verification-status", req, 200, TRUE, "") EXCEPT !.email = user.email]
      @@ [isEmailVerified |-> user.isEmailVerified]

ReadRoutes == {"get-profile", "get-profile-minimal", "me", "verification-status"}

\* what the route answers for the account the auth middleware loaded
ReadBody(op, req, user) ==
    CASE op = "get-profile" -> ProfileRetrieved(req, user)
      [] op = "get-profile-minimal" -> MinimalProfile(req, user)
      [] op = "me" -> Me(req, user)
      [] op = "verification-status" -> VerificationStatus(req, user)

\* a route that reads req.user: the auth middleware's User.findById is its
\* one store operation
ReadAccount(op, token) ==
    LET req == [token |-> token]
        id == Authenticate(token)
    IN  /\ CanStart
        /\ IF id = 0
           THEN Reply(Unauthorized(op, req, token))
           ELSE Reply(ReadBody(op, req, users[id]))
        /\ UNCHANGED <<users, now, inflight, watchlists, reviews>>

---------------------------------------------------------------------------
(* The Watchlist collection *)

MovieIds == 1..MaxMovies
Titles == {"Heat"}
WatchlistNames == {"todo", "seen"}

\* an id of the path that is not 24 hexadecimal digits
Malformed == 0
\* the ids a client can put in the path: Malformed, and well-formed ids, of
\* which id is the _id of watchlists[id] when there is one
WatchlistIds == {Malformed} \cup 1..MaxWatchlists

\* the place of a document that findOneAndDelete removed: no account owns it
Deleted == [user |-> 0, name |-> "", isPublic |-> FALSE, movies |-> <<>>, v |-> 0]

\* new Watchlist({ user, name, isPublic, ... }): no movies, __v 0
NewWatchlist(user, name, isPublic) ==
    [user |-> user, name |-> name, isPublic |-> isPublic, movies |-> <<>>, v |-> 0]

\* a variant of OwnWatchlist that looks the watchlist up by _id alone
AnyWatchlist(id, user) ==
    id \in DOMAIN watchlists /\ watchlists[id] # Deleted

\* the filter { _id: req.params.id, user: req.user._id } matches a document
OwnWatchlist(id, user) ==
    id \in DOMAIN watchlists /\ watchlists[id] # Deleted /\ watchlists[id].user = user

\* movies.some((movie) => movie.movieId === movieId)
HasMovie(movies, movieId) == \E i \in DOMAIN movies : movies[i].movieId = movieId

\* a variant of WithoutMovie that cuts the list at the entry
UpToMovie(movies, movieId) ==
    IF HasMovie(movies, movieId)
    THEN SubSeq(movies, 1, (CHOOSE i \in DOMAIN movies : movies[i].movieId = movieId) - 1)
    ELSE movies

\* movies.filter((movie) => movie.movieId !== movieId)
WithoutMovie(movies, movieId) == SelectSeq(movies, LAMBDA movie : movie.movieId # movieId)

\* the pre-save hook: movieIds.length !== uniqueMovieIds.length
DuplicateMovies(movies) ==
    Cardinality({movies[i].movieId : i \in DOMAIN movies}) # Len(movies)

WatchlistInvalidId(op, req) == Response(op, req, 400, FALSE, "Invalid watchlist ID format")

WatchlistNameRequired(op, req) == Response(op, req, 400, FALSE, "Watchlist name is required")

\* the 404 of a watchlist that is not there or is not the requester's
WatchlistNotFound(op, req) ==
    Response(op, req, 404, FALSE,
             IF op = "watchlist-update"
             THEN "Watchlist not found or you do not have permission to update it"
             ELSE IF op = "watchlist-delete"
             THEN "Watchlist not found or you do not have permission to delete it"
             ELSE "Watchlist not found or you do not have permission to modify it")

\* the catch block of a watchlist handler, for an error that is not a
\* ValidationError
WatchlistServerError(op, req) ==
    Response(op, req, 500, FALSE,
             IF op = "add-movie" THEN "Server error while adding movie to watchlist"
             ELSE "Server error while removing movie from watchlist")

---------------------------------------------------------------------------
(* POST /watchlists, PUT /watchlists/:id, DELETE /watchlists/:id *)

\* watchlist.save() of a new watchlist of the account of the token
CreateWatchlist(token, name, isPublic) ==
    LET op == "watchlist-create"
        req == [token |-> token, name |-> name, isPublic |-> isPublic]
        user == Authenticate(token)
    IN  /\ CanStart
        /\ IF user = 0
           THEN Reply(Unauthorized(op, req, token)) /\ UNCHANGED watchlists
           ELSE IF name = Empty
           THEN Reply(WatchlistNameRequired(op, req)) /\ UNCHANGED watchlists
           ELSE /\ Len(watchlists) < MaxWatchlists
                /\ watchlists' = Append(watchlists, NewWatchlist(user, name, isPublic))
                /\ Reply(Response(op, req, 201, TRUE, "Watchlist created successfully"))
        /\ UNCHANGED <<users, now, inflight, reviews>>

\* Watchlist.findOneAndUpdate({ _id, user }, updateData, ...); updateData
\* holds the name and isPublic: Boolean(isPublic)
UpdateWatchlist(token, id, name, isPublic) ==
    LET op == "watchlist-update"
        req == [token |-> token, id |-> id, name |-> name, isPublic |-> isPublic]
        user == Authenticate(token)
    IN  /\ CanStart
        /\ IF user = 0
           THEN Reply(Unauthorized(op, req, token)) /\ UNCHANGED watchlists
           ELSE IF id = Malformed
           THEN Reply(WatchlistInvalidId(op, req)) /\ UNCHANGED watchlists
           ELSE IF name = Empty
           THEN Reply(WatchlistNameRequired(op, req)) /\ UNCHANGED watchlists
           ELSE IF ~OwnWatchlist(id, user)
           THEN Reply(WatchlistNotFound(op, req)) /\ UNCHANGED watchlists
           ELSE /\ watchlists' = [watchlists EXCEPT ![id].name = name,
                                                   ![id].isPublic = isPublic]
                /\ Reply(Response(op, req, 200, TRUE, "Watchlist updated successfully"))
        /\ UNCHANGED <<users, now, inflight, reviews>>

\* Watchlist.findOneAndDelete({ _id, user })
DeleteWatchlist(token, id) ==
    LET op == "watchlist-delete"
        req == [token |-> token, id |-> id]
        user == Authenticate(token)
    IN  /\ CanStart
        /\ IF user = 0
           THEN Reply(Unauthorized(op, req, token)) /\ UNCHANGED watchlists
           ELSE IF id = Malformed
           THEN Reply(WatchlistInvalidId(op, req)) /\ UNCHANGED watchlists
           ELSE IF ~OwnWatchlist(id, user)
           THEN Reply(WatchlistNotFound(op, req)) /\ UNCHANGED watchlists
           ELSE /\ watchlists' = [watchlists EXCEPT ![id] = Deleted]
                /\ Reply(Response(op, req, 200, TRUE, "Watchlist deleted successfully"))
        /\ UNCHANGED <<users, now, inflight, reviews>>

---------------------------------------------------------------------------
(* GET /watchlists, GET /watchlists/:id and GET /watchlists/public/all *)

\* a variant of Readable that looks the watchlist up by _id alone
ReadableById(id, user) ==
    id \in DOMAIN watchlists /\ watchlists[id] # Deleted

\* the filter { _id: req.params.id, $or: [{ user: req.user._id },
\* { isPublic: true }] } matches a document
Readable(id, user) ==
    /\ id \in DOMAIN watchlists
    /\ watchlists[id] # Deleted
    /\ watchlists[id].user = user \/ watchlists[id].isPublic

\* .sort({ createdAt: -1 }): the documents are stored in the order of their
\* creation
NewestFirst(lists) == [i \in 1..Len(lists) |-> lists[Len(lists) + 1 - i]]

\* Watchlist.find({ user: req.user._id }).sort({ createdAt: -1 })
FindByUser(user) ==
    NewestFirst(SelectSeq(watchlists, LAMBDA list : list # Deleted /\ list.user = user))

\* Watchlist.find({ isPublic: true }).sort({ createdAt: -1 })
FindPublic ==
    NewestFirst(SelectSeq(watchlists, LAMBDA list : list # Deleted /\ list.isPublic))

\* .skip(skip).limit(numericLimit)
SkipLimit(lists, skip, limit) ==
    SubSeq(lists, skip + 1, IF skip + limit < Len(lists) THEN skip + limit ELSE Len(lists))

\* the values of the query parameters page and limit, after parseInt
Pages == {0, 1, 2}
Limits == {0, 1, 10}

WatchlistReadNotFound(op, req) ==
    Response(op, req, 404, FALSE, "Watchlist not found or not accessible")

\* the 200 response with the documents found
WatchlistData(op, req, data) == Response(op, req, 200, TRUE, "") @@ [data |-> data]

\* GET /watchlists: the watchlists of the account of the token
GetWatchlists(token) ==
    LET op == "watchlists"
        req == [token |-> token]
        user == Authenticate(token)
    IN  /\ CanStart
        /\ IF user = 0
           THEN Reply(Unauthorized(op, req, token))
           ELSE Reply(WatchlistData(op, req, FindByUser(user)))
        /\ UNCHANGED <<users, now, inflight, watchlists, reviews>>

\* GET /watchlists/:id
GetWatchlist(token, id) ==
    LET op == "watchlist"
        req == [token |-> token, id |-> id]
        user == Authenticate(token)
    IN  /\ CanStart
        /\ IF user = 0
           THEN Reply(Unauthorized(op, req, token))
           ELSE IF id = Malformed
           THEN Reply(WatchlistInvalidId(op, req))
           ELSE IF ~Readable(id, user)
           THEN Reply(WatchlistReadNotFound(op, req))
           ELSE Reply(WatchlistData(op, req, watchlists[id]))
        /\ UNCHANGED <<users, now, inflight, watchlists, reviews>>

\* GET /watchlists/public/all?page=&limit=, which asks for no token
GetPublicWatchlists(page, limit) ==
    LET op == "watchlists-public"
        req == [page |-> page, limit |-> limit]
    IN  /\ CanStart
        /\ IF page < 1
           THEN Reply(Response(op, req, 400, FALSE, "Page must be a positive number"))
           ELSE IF limit < 1 \/ limit > 100
           THEN Reply(Response(op, req, 400, FALSE, "Limit must be between 1 and 100"))
           ELSE Reply(WatchlistData(op, req, SkipLimit(FindPublic, (page - 1) * limit, limit)))
        /\ UNCHANGED <<users, now, inflight, watchlists, reviews>>

---------------------------------------------------------------------------
(* POST /watchlists/:id/movies *)

MovieRequired(op, req) == Response(op, req, 400, FALSE, "Movie ID and title are required")

MovieExists(op, req) == Response(op, req, 400, FALSE, "Movie already exists in this watchlist")

\* a variant of AddMovieChecks that pushes the movie without looking for it
AddMovieWithoutLooking(r, op, req, id) ==
    LET movie == [movieId |-> req.movieId, title |-> req.title]
    IN  Await(r, [op |-> op, req |-> req, id |-> id, movie |-> movie,
                  movies |-> Append(watchlists[id].movies, movie)])

\* the handler on the watchlist it loaded, up to await watchlist.save(): the
\* frame holds the pushed movie and the array of the loaded document after
\* the push
AddMovieChecks(r, op, req, id) ==
    LET movie == [movieId |-> req.movieId, title |-> req.title]
    IN  IF HasMovie(watchlists[id].movies, req.movieId)
        THEN Reply(MovieExists(op, req)) /\ UNCHANGED inflight
        ELSE Await(r, [op |-> op, req |-> req, id |-> id, movie |-> movie,
                       movies |-> Append(watchlists[id].movies, movie)])

\* the auth middleware, the checks of the request and Watchlist.findOne
AddMovieFind(r, token, id, movieId, title) ==
    LET op == "add-movie"
        req == [token |-> token, id |-> id, movieId |-> movieId, title |-> title]
        user == Authenticate(token)
    IN  /\ CanStart
        /\ FreeSlot(r)
        /\ IF user = 0
           THEN Reply(Unauthorized(op, req, token)) /\ UNCHANGED inflight
           ELSE IF id = Malformed
           THEN Reply(WatchlistInvalidId(op, req)) /\ UNCHANGED inflight
           ELSE IF title = Empty
           THEN Reply(MovieRequired(op, req)) /\ UNCHANGED inflight
           ELSE IF ~OwnWatchlist(id, user)
           THEN Reply(WatchlistNotFound(op, req)) /\ UNCHANGED inflight
           ELSE AddMovieChecks(r, op, req, id)
        /\ UNCHANGED <<users, now, watchlists, reviews>>

\* watchlist.save(): the pre-save hook looks at the array of the loaded
\* document, and the store applies $push of the new movie and $inc of __v to
\* the stored document, whatever its __v
AddMovieSave(r) ==
    /\ inflight[r].op = "add-movie"
    /\ Continue
    /\ LET id == inflight[r].id
       IN  IF DuplicateMovies(inflight[r].movies) \/ watchlists[id] = Deleted
           THEN /\ Reply(WatchlistServerError("add-movie", inflight[r].req))
                /\ UNCHANGED watchlists
           ELSE /\ watchlists' = [watchlists EXCEPT
                                    ![id].movies = Append(@, inflight[r].movie),
                                    ![id].v = @ + 1]
                /\ Reply(Response("add-movie", inflight[r].req, 200, TRUE,
                                  "Movie added to watchlist successfully"))
    /\ inflight' = [inflight EXCEPT ![r] = Idle]
    /\ UNCHANGED <<users, now, reviews>>

---------------------------------------------------------------------------
(* DELETE /watchlists/:id/movies/:movieId *)

MovieNotFound(op, req) == Response(op, req, 404, FALSE, "Movie not found in this watchlist")

\* the auth middleware, Watchlist.findOne and the handler up to await
\* watchlist.save(): the frame holds the filtered array and the __v of the
\* loaded document
RemoveMovieFind(r, token, id, movieId) ==
    LET op == "remove-movie"
        req == [token |-> token, id |-> id, movieId |-> movieId]
        user == Authenticate(token)
    IN  /\ CanStart
        /\ FreeSlot(r)
        /\ IF user = 0
           THEN Reply(Unauthorized(op, req, token)) /\ UNCHANGED inflight
           ELSE IF id = Malformed
           THEN Reply(WatchlistInvalidId(op, req)) /\ UNCHANGED inflight
           ELSE IF ~OwnWatchlist(id, user)
           THEN Reply(WatchlistNotFound(op, req)) /\ UNCHANGED inflight
           ELSE IF ~HasMovie(watchlists[id].movies, movieId)
           THEN Reply(MovieNotFound(op, req)) /\ UNCHANGED inflight
           ELSE Await(r, [op |-> op, req |-> req, id |-> id,
                          movies |-> WithoutMovie(watchlists[id].movies, movieId),
                          v |-> watchlists[id].v])
        /\ UNCHANGED <<users, now, watchlists, reviews>>

\* watchlist.save(): the pre-save hook, then the store sets the whole array
\* and increments __v if the stored document still has the __v that was
\* loaded; otherwise save() throws VersionError
RemoveMovieSave(r) ==
    /\ inflight[r].op = "remove-movie"
    /\ Continue
    /\ LET id == inflight[r].id
       IN  IF \/ DuplicateMovies(inflight[r].movies)
              \/ watchlists[id] = Deleted
              \/ watchlists[id].v # inflight[r].v
           THEN /\ Reply(WatchlistServerError("remove-movie", inflight[r].req))
                /\ UNCHANGED watchlists
           ELSE /\ watchlists' = [watchlists EXCEPT
                                    ![id].movies = inflight[r].movies,
                                    ![id].v = @ + 1]
                /\ Reply(Response("remove-movie", inflight[r].req, 200, TRUE,
                                  "Movie removed from watchlist successfully"))
    /\ inflight' = [inflight EXCEPT ![r] = Idle]
    /\ UNCHANGED <<users, now, reviews>>

---------------------------------------------------------------------------
(* The Review collection, POST /reviews and DELETE /reviews/:id *)

\* ratings, bodies and spoiler flags of the submissions; the requests are
\* those validateReview lets through, with an integer movieId
Ratings == {1, 10}
Bodies == {"good", "dull"}

\* the ids a client can put in the path: Malformed, and well-formed ids, of
\* which id is the _id of reviews[id] when there is one
ReviewIds == {Malformed} \cup 1..MaxReviews

\* the place of a document that findOneAndDelete removed
DeletedReview ==
    [user |-> 0, movieId |-> 0, title |-> "", rating |-> 0, review |-> "", spoiler |-> FALSE,
     likes |-> <<>>, reports |-> <<>>, v |-> 0]

\* parseInt(movieId), on the integers
ParseInt(movieId) == movieId

\* new Review({ user, movie: { movieId, title }, rating, review, spoiler }):
\* the arrays likes and reports start empty, and v is the version key __v
NewReview(user, req) ==
    [user |-> user, movieId |-> ParseInt(req.movieId), title |-> req.title,
     rating |-> req.rating, review |-> req.review, spoiler |-> req.spoiler,
     likes |-> <<>>, reports |-> <<>>, v |-> 0]

\* Review.findOne({ user, "movie.movieId": movieId })
FindReview(user, movieId) ==
    {id \in DOMAIN reviews : reviews[id].user = user /\ reviews[id].movieId = movieId}

\* a variant of UniqueReviewAllows for a collection without the unique index
NoUniqueReviewIndex(review) == TRUE

\* the unique index on { user, "movie.movieId" }: an insert that would leave
\* two reviews of one account for one movie is rejected (E11000)
UniqueReviewAllows(review) == FindReview(review.user, review.movieId) = {}

\* the filter { _id: req.params.id, user: req.user._id } matches a document
OwnReview(id, user) ==
    id \in DOMAIN reviews /\ reviews[id] # DeletedReview /\ reviews[id].user = user

\* a variant of VerificationRequired that refuses without the flag
VerificationRequiredWithoutFlag(op, req, user) ==
    [Response(op, req, 403, FALSE, "Please verify your email address to access this feature")
     EXCEPT !.email = user.email]

\* requireEmailVerification on an account that is not verified
VerificationRequired(op, req, user) ==
    [Response(op, req, 403, FALSE, "Please verify your email address to access this feature")
     EXCEPT !.emailVerificationRequired = "true",
            !.email = user.email]

ReviewNotFound(op, req) ==
    Response(op, req, 404, FALSE, "Review not found or you don't have permission to delete it")

\* the middlewares and Review.findOne: the frame holds the review it found,
\* as loaded, or 0
SubmitReviewFind(r, token, movieId, rating, review, spoiler) ==
    LET op == "review"
        req == [token |-> token, movieId |-> movieId, title |-> "Heat", rating |-> rating,
                review |-> review, spoiler |-> spoiler]
        user == Authenticate(token)
        found == FindReview(user, movieId)
    IN  /\ CanStart
        /\ FreeSlot(r)
        /\ IF user = 0
           THEN Reply(Unauthorized(op, req, token)) /\ UNCHANGED inflight
           ELSE IF ~users[user].isEmailVerified
           THEN Reply(VerificationRequired(op, req, users[user])) /\ UNCHANGED inflight
           ELSE IF found = {}
           THEN Await(r, [op |-> op, req |-> req, user |-> user, existing |-> 0,
                          loaded |-> DeletedReview])
           ELSE \E id \in found :
                  Await(r, [op |-> op, req |-> req, user |-> user, existing |-> id,
                            loaded |-> reviews[id]])
        /\ UNCHANGED <<users, now, watchlists, reviews>>

\* a variant of UpdatedReview that keeps the rating of the first submission
UpdatedReviewKeepingRating(stored, loaded, req) ==
    [stored EXCEPT !.review = IF loaded.review # req.review THEN req.review ELSE @,
                   !.spoiler = IF loaded.spoiler # req.spoiler THEN req.spoiler ELSE @]

\* what existingReview.save() writes: the paths whose value differs from the
\* loaded one
UpdatedReview(stored, loaded, req) ==
    [stored EXCEPT !.rating = IF loaded.rating # req.rating THEN req.rating ELSE @,
                   !.review = IF loaded.review # req.review THEN req.review ELSE @,
                   !.spoiler = IF loaded.spoiler # req.spoiler THEN req.spoiler ELSE @]

\* a variant of SubmitReviewSave whose update replaces the stored document
\* by a new one
SubmitReviewSaveReplacing(r) ==
    /\ inflight[r].op = "review"
    /\ Continue
    /\ LET req == inflight[r].req
           id == inflight[r].existing
           new == NewReview(inflight[r].user, req)
       IN  IF id # 0
           THEN /\ reviews' = [reviews EXCEPT ![id] = new]
                /\ Reply(Response("review", req, 200, TRUE, "Review updated successfully"))
           ELSE IF ~UniqueReviewAllows(new)
                THEN /\ Reply(Response("review", req, 400, FALSE,
                                       "Review already exists for this movie"))
                     /\ UNCHANGED reviews
                ELSE /\ Len(reviews) < MaxReviews
                     /\ reviews' = Append(reviews, new)
                     /\ Reply(Response("review", req, 201, TRUE, "Review created successfully"))
    /\ inflight' = [inflight EXCEPT ![r] = Idle]
    /\ UNCHANGED <<users, now, watchlists>>

\* existingReview.save() or newReview.save(), and the response
SubmitReviewSave(r) ==
    /\ inflight[r].op = "review"
    /\ Continue
    /\ LET req == inflight[r].req
           id == inflight[r].existing
           loaded == inflight[r].loaded
           new == NewReview(inflight[r].user, req)
       IN  IF id # 0
           THEN IF reviews[id] = DeletedReview /\ UpdatedReview(loaded, loaded, req) # loaded
                THEN Reply(ServerError("review", req)) /\ UNCHANGED reviews
                ELSE /\ reviews' = [reviews EXCEPT ![id] =
                                      IF @ = DeletedReview THEN @
                                      ELSE UpdatedReview(@, loaded, req)]
                     /\ Reply(Response("review", req, 200, TRUE, "Review updated successfully"))
           ELSE IF ~UniqueReviewAllows(new)
                THEN /\ Reply(Response("review", req, 400, FALSE,
                                       "Review already exists for this movie"))
                     /\ UNCHANGED reviews
                ELSE /\ Len(reviews) < MaxReviews
                     /\ reviews' = Append(reviews, new)
                     /\ Reply(Response("review", req, 201, TRUE, "Review created successfully"))
    /\ inflight' = [inflight EXCEPT ![r] = Idle]
    /\ UNCHANGED <<users, now, watchlists>>

\* Review.findOneAndDelete({ _id, user })
DeleteReview(token, id) ==
    LET op == "review-delete"
        req == [token |-> token, id |-> id]
        user == Authenticate(token)
    IN  /\ CanStart
        /\ IF user = 0
           THEN Reply(Unauthorized(op, req, token)) /\ UNCHANGED reviews
           ELSE IF ~users[user].isEmailVerified
           THEN Reply(VerificationRequired(op, req, users[user])) /\ UNCHANGED reviews
           ELSE IF id = Malformed
           THEN Reply(Response(op, req, 400, FALSE, "Invalid review ID format"))
                  /\ UNCHANGED reviews
           ELSE IF ~OwnReview(id, user)
           THEN Reply(ReviewNotFound(op, req)) /\ UNCHANGED reviews
           ELSE /\ reviews' = [reviews EXCEPT ![id] = DeletedReview]
                /\ Reply(Response(op, req, 200, TRUE, "Review deleted successfully"))
        /\ UNCHANGED <<users, now, inflight, watchlists>>

---------------------------------------------------------------------------
(* POST /reviews/:id/like and POST /reviews/:id/report *)

\* the reasons a client can put in the body of a report: one with a trailing
\* blank, one of blanks only, and none
Reasons == {"spam ", " ", Empty}

\* reason.trim()
Trim(reason) == IF reason = "spam " THEN "spam" ELSE IF reason = " " THEN "" ELSE reason

\* Review.findById(reviewId) finds a document
ReviewExists(id) == id \in DOMAIN reviews /\ reviews[id] # DeletedReview

\* review.likes.findIndex(id => id.toString() === userId.toString()), counted
\* from 1; 0 when the account is not in the array
LikedIndex(likes, user) ==
    IF \E i \in DOMAIN likes : likes[i] = user
    THEN CHOOSE i \in DOMAIN likes : likes[i] = user /\ \A j \in 1..(i - 1) : likes[j] # user
    ELSE 0

\* a variant of Splice without the count: likes.splice(likedIndex) drops the
\* rest of the array as well
SpliceToEnd(likes, likedIndex) == SubSeq(likes, 1, likedIndex - 1)

\* review.likes.splice(likedIndex, 1)
Splice(likes, likedIndex) ==
    SubSeq(likes, 1, likedIndex - 1) \o SubSeq(likes, likedIndex + 1, Len(likes))

\* review.reports.find(report => report.user.toString() === userId.toString())
ExistingReport(reports, user) == \E i \in DOMAIN reports : reports[i].user = user

ReviewInvalidId(op, req) == Response(op, req, 400, FALSE, "Invalid review ID format")

ReviewMissing(op, req) == Response(op, req, 404, FALSE, "Review not found")

\* the body of the response to a like: liked and likesCount are read from the
\* document in memory
LikeToggled(req, liked, likes) ==
    Response("like", req, 200, TRUE,
             IF liked THEN "Review liked successfully" ELSE "Review unliked successfully")
      @@ [liked |-> liked, likesCount |-> Len(likes)]

\* auth, Review.findById, and the change of review.likes in memory: the frame
\* holds the array as changed and the version the document was loaded with
ToggleLikeFind(r, token, id) ==
    LET op == "like"
        req == [token |-> token, id |-> id]
        user == Authenticate(token)
        likedIndex == LikedIndex(reviews[id].likes, user)
    IN  /\ CanStart
        /\ FreeSlot(r)
        /\ IF user = 0
           THEN Reply(Unauthorized(op, req, token)) /\ UNCHANGED inflight
           ELSE IF id = Malformed
           THEN Reply(ReviewInvalidId(op, req)) /\ UNCHANGED inflight
           ELSE IF ~ReviewExists(id)
           THEN Reply(ReviewMissing(op, req)) /\ UNCHANGED inflight
           ELSE Await(r, [op |-> op, req |-> req, id |-> id, user |-> user,
                          liked |-> likedIndex = 0,
                          likes |-> IF likedIndex = 0
                                    THEN Append(reviews[id].likes, user)
                                    ELSE Splice(reviews[id].likes, likedIndex),
                          v |-> reviews[id].v])
        /\ UNCHANGED <<users, now, watchlists, reviews>>

\* the likes review.save() leaves in the store: a push is sent as $push of
\* the account, a splice as $set of the array in memory
LikesSaved(stored, frame) ==
    IF frame.liked THEN Append(stored.likes, frame.user) ELSE frame.likes

\* review.save() and the response: the write of a document that was deleted
\* matches nothing, and the $set of an array asks for the version the
\* document was loaded with; both reject
ToggleLikeSave(r) ==
    /\ inflight[r].op = "like"
    /\ Continue
    /\ LET frame == inflight[r]
           id == frame.id
       IN  IF \/ ~ReviewExists(id)
              \/ ~frame.liked /\ reviews[id].v # frame.v
           THEN Reply(ServerError("like", frame.req)) /\ UNCHANGED reviews
           ELSE /\ reviews' = [reviews EXCEPT ![id].likes = LikesSaved(reviews[id], frame),
                                              ![id].v = @ + 1]
                /\ Reply(LikeToggled(frame.req, frame.liked, frame.likes))
    /\ inflight' = [inflight EXCEPT ![r] = Idle]
    /\ UNCHANGED <<users, now, watchlists>>

AlreadyReported(op, req) ==
    Response(op, req, 400, FALSE, "You have already reported this review")

\* the scan of review.reports for a report of the account, and the push
ReportChecks(r, op, req, id, user) ==
    IF ExistingReport(reviews[id].reports, user)
    THEN Reply(AlreadyReported(op, req)) /\ UNCHANGED inflight
    ELSE Await(r, [op |-> op, req |-> req, id |-> id,
                   report |-> [user |-> user, reason |-> Trim(req.reason), createdAt |-> now]])

\* auth, the checks of the id and the reason, Review.findById and the scan
ReportFind(r, token, id, reason) ==
    LET op == "report"
        req == [token |-> token, id |-> id, reason |-> reason]
        user == Authenticate(token)
    IN  /\ CanStart
        /\ FreeSlot(r)
        /\ IF user = 0
           THEN Reply(Unauthorized(op, req, token)) /\ UNCHANGED inflight
           ELSE IF id = Malformed
           THEN Reply(ReviewInvalidId(op, req)) /\ UNCHANGED inflight
           ELSE IF reason = Empty \/ Trim(reason) = Empty
           THEN Reply(Response(op, req, 400, FALSE, "Report reason is required"))
                  /\ UNCHANGED inflight
           ELSE IF ~ReviewExists(id)
           THEN Reply(ReviewMissing(op, req)) /\ UNCHANGED inflight
           ELSE ReportChecks(r, op, req, id, user)
        /\ UNCHANGED <<users, now, watchlists, reviews>>

\* review.save(), which sends the report as a $push, and the response
ReportSave(r) ==
    /\ inflight[r].op = "report"
    /\ Continue
    /\ LET frame == inflight[r]
           id == frame.id
       IN  IF ~ReviewExists(id)
           THEN Reply(ServerError("report", frame.req)) /\ UNCHANGED reviews
           ELSE /\ reviews' = [reviews EXCEPT ![id].reports = Append(@, frame.report),
                                              ![id].v = @ + 1]
                /\ Reply(Response("report", frame.req, 200, TRUE,
                                  "Review reported successfully"))
    /\ inflight' = [inflight EXCEPT ![r] = Idle]
    /\ UNCHANGED <<users, now, watchlists>>

---------------------------------------------------------------------------
(* POST /users/favorites, DELETE /users/favorites/:movieId, POST            *)
(* /users/watched, DELETE /users/watched/:movieId                          *)

\* the number n in a JSON body
JsonNumber(n) == [type |-> "number", value |-> n]

\* the string of the digits of n, in a JSON body or in a path
JsonString(n) == [type |-> "string", value |-> n]

\* what a string that is not a numeral denotes: NaN, which differs from every
\* movie id
NotANumber == 0

\* the movieId values a client can put in a body: numbers, their numerals as
\* strings, and a string that is not a numeral
SubmittedMovieIds ==
    {JsonNumber(m) : m \in MovieIds} \cup {JsonString(m) : m \in MovieIds \cup {NotANumber}}

\* the :movieId segments a client can put in a path
MovieIdParams == {JsonString(m) : m \in MovieIds \cup {NotANumber}}

\* movie.movieId === movieId, for the Number the schema stored and the value
\* of the body: a string is never strictly equal to a number
StrictEquals(stored, submitted) == submitted.type = "number" /\ submitted.value = stored

\* the cast of a pushed movieId to the Number of the schema
CastNumber(submitted) == submitted.value

\* parseInt(movieId) of a path segment
ParseIntParam(param) == param.value

\* user.favoriteMovies.find((movie) => movie.movieId === movieId)
ExistingEntry(movies, movieId) ==
    \E i \in DOMAIN movies : StrictEquals(movies[i].movieId, movieId)

\* movies.filter((movie) => movie.movieId !== movieId), for a value of the body
FilterSubmitted(movies, movieId) ==
    LET Keep(movie) == ~StrictEquals(movie.movieId, movieId)
    IN  SelectSeq(movies, Keep)

\* movies.filter((movie) => movie.movieId !== parseInt(movieId))
FilterParam(movies, param) ==
    LET Keep(movie) == movie.movieId # ParseIntParam(param)
    IN  SelectSeq(movies, Keep)

AlreadyFavorite(op, req) == Response(op, req, 400, FALSE, "Movie already in favorites")

\* POST /users/favorites up to user.save(): the frame holds the list of the
\* document in memory
AddFavoriteFind(r, token, movieId) ==
    LET op == "add-favorite"
        req == [token |-> token, movieId |-> movieId]
        user == Authenticate(token)
    IN  /\ CanStart
        /\ FreeSlot(r)
        /\ IF user = 0
           THEN Reply(Unauthorized(op, req, token)) /\ UNCHANGED inflight
           ELSE IF ~users[user].isEmailVerified
           THEN Reply(VerificationRequired(op, req, users[user])) /\ UNCHANGED inflight
           ELSE IF ExistingEntry(users[user].favoriteMovies, movieId)
           THEN Reply(AlreadyFavorite(op, req)) /\ UNCHANGED inflight
           ELSE Await(r, [op |-> op, req |-> req, id |-> user,
                          movies |-> Append(users[user].favoriteMovies,
                                            [movieId |-> CastNumber(movieId),
                                             title |-> "Heat"])])
        /\ UNCHANGED <<users, now, watchlists, reviews>>

\* DELETE /users/favorites/:movieId up to user.save()
RemoveFavoriteFind(r, token, param) ==
    LET op == "remove-favorite"
        req == [token |-> token, movieId |-> param]
        user == Authenticate(token)
    IN  /\ CanStart
        /\ FreeSlot(r)
        /\ IF user = 0
           THEN Reply(Unauthorized(op, req, token)) /\ UNCHANGED inflight
           ELSE IF ~users[user].isEmailVerified
           THEN Reply(VerificationRequired(op, req, users[user])) /\ UNCHANGED inflight
           ELSE Await(r, [op |-> op, req |-> req, id |-> user,
                          movies |-> FilterParam(users[user].favoriteMovies, param)])
        /\ UNCHANGED <<users, now, watchlists, reviews>>

\* POST /users/watched up to user.save()
AddWatchedFind(r, token, movieId) ==
    LET op == "add-watched"
        req == [token |-> token, movieId |-> movieId]
        user == Authenticate(token)
    IN  /\ CanStart
        /\ FreeSlot(r)
        /\ IF user = 0
           THEN Reply(Unauthorized(op, req, token)) /\ UNCHANGED inflight
           ELSE IF ~users[user].isEmailVerified
           THEN Reply(VerificationRequired(op, req, users[user])) /\ UNCHANGED inflight
           ELSE Await(r, [op |-> op, req |-> req, id |-> user,
                          movies |->
                            Append(FilterSubmitted(users[user].watchedMovies, movieId),
                                   [movieId |-> CastNumber(movieId), title |-> "Heat"])])
        /\ UNCHANGED <<users, now, watchlists, reviews>>

\* DELETE /users/watched/:movieId up to user.save()
RemoveWatchedFind(r, token, param) ==
    LET op == "remove-watched"
        req == [token |-> token, movieId |-> param]
        user == Authenticate(token)
    IN  /\ CanStart
        /\ FreeSlot(r)
        /\ IF user = 0
           THEN Reply(Unauthorized(op, req, token)) /\ UNCHANGED inflight
           ELSE IF ~users[user].isEmailVerified
           THEN Reply(VerificationRequired(op, req, users[user])) /\ UNCHANGED inflight
           ELSE Await(r, [op |-> op, req |-> req, id |-> user,
                          movies |-> FilterParam(users[user].watchedMovies, param)])
        /\ UNCHANGED <<users, now, watchlists, reviews>>

\* the entries fail validation: a movieId that is not a numeral cannot be
\* cast to Number
CastFails(movies) == \E i \in DOMAIN movies : movies[i].movieId = NotANumber

ListSaved(op, req) ==
    Response(op, req, 200, TRUE,
             CASE op = "add-favorite" -> "Movie added to favorites"
               [] op = "remove-favorite" -> "Movie removed from favorites"
               [] op = "add-watched" -> "Movie added to watched list"
               [] op = "remove-watched" -> "Movie removed from watched list")

\* user.save() of the four routes and the response: the password is not
\* modified, so the pre-save hook leaves it; the requests of these routes
\* are served one at a time, and the list in memory is the one written
ListSave(r) ==
    /\ inflight[r].op \in {"add-favorite", "remove-favorite", "add-watched", "remove-watched"}
    /\ Continue
    /\ LET frame == inflight[r]
       IN  IF CastFails(frame.movies)
           THEN Reply(ServerError(frame.op, frame.req)) /\ UNCHANGED users
           ELSE /\ users' = IF frame.op \in {"add-favorite", "remove-favorite"}
                            THEN [users EXCEPT ![frame.id].favoriteMovies = frame.movies,
                                               ![frame.id].password = PreSave(@, FALSE)]
                            ELSE [users EXCEPT ![frame.id].watchedMovies = frame.movies,
                                               ![frame.id].password = PreSave(@, FALSE)]
                /\ Reply(ListSaved(frame.op, frame.req))
    /\ inflight' = [inflight EXCEPT ![r] = Idle]
    /\ UNCHANGED <<now, watchlists, reviews>>

---------------------------------------------------------------------------
(* GET /movies/recommendations/personalized *)

\* what tmdbService does with the request: the promise resolves or rejects
TmdbOutcomes == {"resolved", "rejected"}

\* the catch block answers with error.message
RecommendationsFailed(req) ==
    Response("recommendations", req, 500, FALSE, "Request failed")

\* the middlewares, the call of tmdbService and the response; the store is
\* read by the auth middleware alone
PersonalizedRecommendations(token, outcome) ==
    LET op == "recommendations"
        req == [token |-> token]
        user == Authenticate(token)
    IN  /\ CanStart
        /\ IF user = 0
           THEN Reply(Unauthorized(op, req, token))
           ELSE IF ~users[user].isEmailVerified
           THEN Reply(VerificationRequired(op, req, users[user]))
           ELSE IF outcome = "rejected"
           THEN Reply(RecommendationsFailed(req))
           ELSE Reply(Response(op, req, 200, TRUE, ""))
        /\ UNCHANGED <<users, now, inflight, watchlists, reviews>>

---------------------------------------------------------------------------
(* The specification *)

\* the account of ana as Register leaves it at time 0
Ana ==
    NewUser([username |-> "ana", email |-> "ana@x.com", password |-> "secret1"],
            "100000", HOUR)

\* the stores a behaviour starts from: the empty store, and the stores it
\* becomes at time 0 after ana registers, after she verifies her email and
\* after she then asks for a password reset
Stores ==
    {<<>>,
     <<Ana>>,
     <<VerifiedUser(Ana)>>,
     <<ResetPendingUser(VerifiedUser(Ana), "999999", HOUR)>>}

\* the store of a state, and the clock
Fresh(store) ==
    /\ users = store
    /\ now = 0
    /\ inflight = [r \in Slots |-> Idle]
    /\ resp = NoResp
    /\ watchlists = <<>>
    /\ reviews = <<>>

\* requests are served one after the other
Init ==
    /\ \E store \in Stores : Fresh(store)
    /\ budget = MaxRequests
    /\ capacity = 1

\* up to MaxInflight requests overlap
InitOverlapping ==
    /\ \E store \in {<<>>, <<Ana>>} : Fresh(store)
    /\ budget = MaxRequests
    /\ capacity = MaxInflight

\* the requests that write a username or an email
IdentityNext ==
    \/ \E r \in Slots, username \in Usernames, email \in Emails, password \in Passwords :
         RegisterFind(r, username, email, password)
    \/ \E r \in Slots, verificationCode \in Codes, delivery \in Deliveries :
         RegisterSave(r, verificationCode, delivery)
    \/ \E r \in Slots, token \in AuthHeaders,
          username \in Usernames \cup {Empty}, email \in Emails \cup {Empty} :
         ProfileAuth(r, token, username, email)
    \/ \E r \in Slots : ProfileCheckUsername(r)
    \/ \E r \in Slots : ProfileCheckEmail(r)
    \/ \E r \in Slots : ProfileUpdate(r)

\* the requests that leave the usernames and the emails alone
LifecycleNext ==
    \/ \E email \in Emails, password \in Passwords : Login(email, password)
    \/ \E r \in Slots, email \in Emails, code \in SubmittedCodes : VerifyEmailFind(r, email, code)
    \/ \E r \in Slots, delivery \in Deliveries : VerifyEmailSave(r, delivery)
    \/ \E r \in Slots, email \in Emails : ResendByEmailFind(r, email)
    \/ \E r \in Slots, token \in AuthHeaders : ResendByTokenFind(r, token)
    \/ \E r \in Slots, verificationCode \in Codes, delivery \in Deliveries :
         ResendSave(r, verificationCode, delivery)
    \/ \E r \in Slots, email \in Emails : ForgotPasswordFind(r, email)
    \/ \E r \in Slots, resetCode \in Codes, delivery \in Deliveries :
         ForgotPasswordSave(r, resetCode, delivery)
    \/ \E r \in Slots, email \in Emails, code \in SubmittedCodes, newPassword \in Passwords :
         ResetPasswordFind(r, email, code, newPassword)
    \/ \E r \in Slots : ResetPasswordSave(r)

Next == Tick \/ IdentityNext \/ LifecycleNext

\* every request of the account lifecycle, served one after the other
Spec == Init /\ [][Next]_vars

\* the store right after ana registers; requests are served one after the other
InitRegistered ==
    /\ Fresh(<<Ana>>)
    /\ budget = MaxRequests
    /\ capacity = 1

\* every request of the account lifecycle after ana's Register
SpecRegistered == InitRegistered /\ [][Next]_vars

\* the avatar routes and the routes that read the account
AccountNext ==
    \/ \E r \in Slots, token \in AuthHeaders, file \in BOOLEAN :
         UploadAvatarAuth(r, token, file)
    \/ \E r \in Slots : UploadAvatarUpdate(r)
    \/ \E r \in Slots, token \in AuthHeaders : DeleteAvatarAuth(r, token)
    \/ \E r \in Slots : DeleteAvatarUpdate(r)
    \/ \E op \in ReadRoutes, token \in AuthHeaders : ReadAccount(op, token)

\* every request of the account lifecycle and of the account's own routes
SpecAccount == Init /\ [][Next \/ AccountNext]_vars

\* the stores that hold a code: ana after her Register, and after she
\* verified her email and asked for a password reset; up to MaxInflight
\* requests overlap
InitCodeOverlapping ==
    /\ \E store \in {<<Ana>>, <<ResetPendingUser(VerifiedUser(Ana), "999999", HOUR)>>} :
         Fresh(store)
    /\ budget = MaxRequests
    /\ capacity = MaxInflight

\* the requests that consume a code
CodeNext ==
    \/ \E r \in Slots, email \in Emails, code \in SubmittedCodes : VerifyEmailFind(r, email, code)
    \/ \E r \in Slots, delivery \in Deliveries : VerifyEmailSave(r, delivery)
    \/ \E r \in Slots, email \in Emails, code \in SubmittedCodes, newPassword \in Passwords :
         ResetPasswordFind(r, email, code, newPassword)
    \/ \E r \in Slots : ResetPasswordSave(r)

\* overlapping VerifyEmail and ResetPassword requests
SpecCodeOverlapping == InitCodeOverlapping /\ [][Tick \/ CodeNext]_vars

\* the store right after ana registers; up to MaxInflight requests overlap
InitVerifyOverlapping ==
    /\ Fresh(<<Ana>>)
    /\ budget = MaxRequests
    /\ capacity = MaxInflight

\* the requests that issue or consume a verification code
VerifyNext ==
    \/ \E r \in Slots, email \in Emails, code \in SubmittedCodes : VerifyEmailFind(r, email, code)
    \/ \E r \in Slots, delivery \in Deliveries : VerifyEmailSave(r, delivery)
    \/ \E r \in Slots, email \in Emails : ResendByEmailFind(r, email)
    \/ \E r \in Slots, token \in AuthHeaders : ResendByTokenFind(r, token)
    \/ \E r \in Slots, verificationCode \in Codes, delivery \in Deliveries :
         ResendSave(r, verificationCode, delivery)

\* overlapping VerifyEmail and ResendVerification requests
SpecVerifyOverlapping == InitVerifyOverlapping /\ [][Tick \/ VerifyNext]_vars

\* overlapping Register and profile-update requests
SpecOverlapping == InitOverlapping /\ [][IdentityNext]_vars

\* the account of bob as Register leaves it at time 0
Bob ==
    NewUser([username |-> "bob", email |-> "bob@x.com", password |-> "secret2"],
            "999999", HOUR)

\* the accounts the collections belong to: ana is verified, bob is or is not
Accounts == {<<VerifiedUser(Ana), VerifiedUser(Bob)>>, <<VerifiedUser(Ana), Bob>>}

\* a movie as add-movie stores it
Heat(movieId) == [movieId |-> movieId, title |-> "Heat"]

\* the watchlists a behaviour starts from: none, the watchlist ana created,
\* and that watchlist after she added three movies to it
WatchlistStores ==
    {<<>>,
     <<NewWatchlist(1, "todo", FALSE)>>,
     <<[NewWatchlist(1, "todo", FALSE) EXCEPT !.movies = <<Heat(2), Heat(1), Heat(3)>>, !.v = 3]>>}

\* the reviews a behaviour starts from: none, and the review ana submitted
ReviewStores ==
    {<<>>,
     <<NewReview(1, [movieId |-> 1, title |-> "Heat", rating |-> 1,
                     review |-> "good", spoiler |-> FALSE])>>}

\* the stores of the collections, with no request in service
FreshCollections(accounts, lists, revs) ==
    /\ users = accounts
    /\ watchlists = lists
    /\ reviews = revs
    /\ now = 0
    /\ inflight = [r \in Slots |-> Idle]
    /\ resp = NoResp

\* requests on the collections are served one after the other
InitCollections ==
    /\ \E accounts \in Accounts, lists \in WatchlistStores, revs \in ReviewStores :
         FreshCollections(accounts, lists, revs)
    /\ budget = MaxRequests
    /\ capacity = 1

\* requests on the reviews are served one after the other; no watchlist is stored
InitReviews ==
    /\ \E accounts \in Accounts, revs \in ReviewStores :
         FreshCollections(accounts, <<>>, revs)
    /\ budget = MaxRequests
    /\ capacity = 1

\* the accounts the lists belong to: ana is verified and has no favorite, or
\* has movie 1 as a favorite and as a watched movie; bob is not verified
ListStores ==
    {<<VerifiedUser(Ana), Bob>>,
     <<[VerifiedUser(Ana) EXCEPT !.favoriteMovies = <<Heat(1)>>,
                                 !.watchedMovies = <<Heat(1)>>], Bob>>}

\* requests on the favorites and the watched movies are served one after the
\* other
InitLists ==
    /\ \E accounts \in ListStores : FreshCollections(accounts, <<>>, <<>>)
    /\ budget = MaxRequests
    /\ capacity = 1

\* the requests on the favorites and the watched movies
ListsNext ==
    \/ \E r \in Slots, token \in AuthHeaders, movieId \in SubmittedMovieIds :
         AddFavoriteFind(r, token, movieId)
    \/ \E r \in Slots, token \in AuthHeaders, param \in MovieIdParams :
         RemoveFavoriteFind(r, token, param)
    \/ \E r \in Slots, token \in AuthHeaders, movieId \in SubmittedMovieIds :
         AddWatchedFind(r, token, movieId)
    \/ \E r \in Slots, token \in AuthHeaders, param \in MovieIdParams :
         RemoveWatchedFind(r, token, param)
    \/ \E r \in Slots : ListSave(r)

\* up to MaxInflight submissions of reviews overlap
InitReviewOverlapping ==
    /\ \E revs \in ReviewStores :
         FreshCollections(<<VerifiedUser(Ana), VerifiedUser(Bob)>>, <<>>, revs)
    /\ budget = MaxRequests
    /\ capacity = MaxInflight

\* the review of ana as she submitted it, after ana and bob liked it, and
\* after bob reported it at time 0
ReactionStores ==
    LET submitted == NewReview(1, [movieId |-> 1, title |-> "Heat", rating |-> 1,
                                   review |-> "good", spoiler |-> FALSE])
    IN  {<<submitted>>,
         <<[submitted EXCEPT !.likes = <<1, 2>>, !.v = 2]>>,
         <<[submitted EXCEPT !.reports = <<[user |-> 2, reason |-> "spam", createdAt |-> 0]>>,
                             !.v = 1]>>}

\* likes and reports are served one after the other; they ask for a session,
\* not for a verified email, and bob is not verified
InitReactions ==
    /\ \E revs \in ReactionStores : FreshCollections(<<VerifiedUser(Ana), Bob>>, <<>>, revs)
    /\ budget = MaxRequests
    /\ capacity = 1

\* up to MaxInflight reports overlap
InitReportOverlapping ==
    /\ \E revs \in ReactionStores : FreshCollections(<<VerifiedUser(Ana), Bob>>, <<>>, revs)
    /\ budget = MaxRequests
    /\ capacity = MaxInflight

\* the requests that like or unlike a review
LikeNext ==
    \/ \E r \in Slots, token \in AuthHeaders, id \in ReviewIds : ToggleLikeFind(r, token, id)
    \/ \E r \in Slots : ToggleLikeSave(r)

\* the requests that report a review
ReportNext ==
    \/ \E r \in Slots, token \in AuthHeaders, id \in ReviewIds, reason \in Reasons :
         ReportFind(r, token, id, reason)
    \/ \E r \in Slots : ReportSave(r)

\* up to MaxInflight requests on the movies of a watchlist overlap
InitWatchlistOverlapping ==
    /\ \E lists \in WatchlistStores \ {<<>>} :
         FreshCollections(<<VerifiedUser(Ana), VerifiedUser(Bob)>>, lists, <<>>)
    /\ budget = MaxRequests
    /\ capacity = MaxInflight

\* the requests that add a movie to a watchlist or remove one from it
WatchlistMoviesNext ==
    \/ \E r \in Slots, token \in AuthHeaders, id \in WatchlistIds,
          movieId \in MovieIds, title \in Titles \cup {Empty} :
         AddMovieFind(r, token, id, movieId, title)
    \/ \E r \in Slots : AddMovieSave(r)
    \/ \E r \in Slots, token \in AuthHeaders, id \in WatchlistIds, movieId \in MovieIds :
         RemoveMovieFind(r, token, id, movieId)
    \/ \E r \in Slots : RemoveMovieSave(r)

\* the requests that create, rename or delete a watchlist
WatchlistNext ==
    \/ \E token \in AuthHeaders, name \in WatchlistNames \cup {Empty}, isPublic \in BOOLEAN :
         CreateWatchlist(token, name, isPublic)
    \/ \E token \in AuthHeaders, id \in WatchlistIds, name \in WatchlistNames \cup {Empty},
          isPublic \in BOOLEAN :
         UpdateWatchlist(token, id, name, isPublic)
    \/ \E token \in AuthHeaders, id \in WatchlistIds : DeleteWatchlist(token, id)

\* the requests that delete a review
ReviewDeleteNext == \E token \in AuthHeaders, id \in ReviewIds : DeleteReview(token, id)

\* the requests that submit a review
ReviewSubmitNext ==
    \/ \E r \in Slots, token \in AuthHeaders, movieId \in MovieIds, rating \in Ratings,
          review \in Bodies, spoiler \in BOOLEAN :
         SubmitReviewFind(r, token, movieId, rating, review, spoiler)
    \/ \E r \in Slots : SubmitReviewSave(r)

\* the requests on reviews
ReviewNext == ReviewSubmitNext \/ ReviewDeleteNext

\* the requests that change or delete a stored watchlist or review
CollectionsNext == WatchlistNext \/ WatchlistMoviesNext \/ ReviewDeleteNext

\* the requests of the routes behind authWithEmailVerification
GatedNext ==
    \/ ReviewNext
    \/ ListsNext
    \/ \E token \in AuthHeaders, outcome \in TmdbOutcomes :
         PersonalizedRecommendations(token, outcome)

\* ana is verified and bob is not; the stores hold no review, or ana's, and
\* no favorite, or ana's
InitGated ==
    /\ \E accounts \in ListStores, revs \in ReviewStores :
         FreshCollections(accounts, <<>>, revs)
    /\ budget = MaxRequests
    /\ capacity = 1

\* the routes behind authWithEmailVerification, served one after the other
SpecGated == InitGated /\ [][GatedNext]_vars

\* the watchlists the reads start from: a private watchlist of ana, alone
\* or with a public one of hers, or with a public or a private one of bob
WatchlistReadStores ==
    {<<NewWatchlist(1, "todo", FALSE)>>,
     <<NewWatchlist(1, "todo", FALSE), NewWatchlist(1, "seen", TRUE)>>,
     <<NewWatchlist(1, "todo", FALSE), NewWatchlist(2, "seen", TRUE)>>,
     <<NewWatchlist(1, "todo", FALSE), NewWatchlist(2, "seen", FALSE)>>}

\* requests are served one after the other; bob is or is not verified
InitWatchlistReads ==
    /\ \E accounts \in Accounts, lists \in WatchlistReadStores :
         FreshCollections(accounts, lists, <<>>)
    /\ budget = MaxRequests
    /\ capacity = 1

\* the requests that read watchlists
WatchlistReadNext ==
    \/ \E token \in AuthHeaders : GetWatchlists(token)
    \/ \E token \in AuthHeaders, id \in WatchlistIds : GetWatchlist(token, id)
    \/ \E page \in Pages, limit \in Limits : GetPublicWatchlists(page, limit)

\* the requests that create, change, delete and read watchlists, served one
\* after the other
SpecWatchlistReads == InitWatchlistReads /\ [][WatchlistNext \/ WatchlistReadNext]_vars

\* ana and bob are verified and ana's review is stored, liked or reported;
\* up to MaxInflight requests overlap
InitReviewUpdates ==
    /\ \E revs \in ReactionStores :
         FreshCollections(<<VerifiedUser(Ana), VerifiedUser(Bob)>>, <<>>, revs)
    /\ budget = MaxRequests
    /\ capacity = MaxInflight

\* submissions of reviews overlapping likes and reports
SpecReviewUpdates == InitReviewUpdates /\ [][ReviewSubmitNext \/ LikeNext \/ ReportNext]_vars

\* the requests on watchlists and the deletion of reviews, served one after
\* the other
SpecCollections == InitCollections /\ [][CollectionsNext]_vars

\* the requests on reviews, served one after the other
SpecReviews == InitReviews /\ [][ReviewNext]_vars

\* the requests on favorites and watched movies, served one after the other
SpecLists == InitLists /\ [][ListsNext]_vars

\* every request that saves a User document, served one after the other
SpecUserSaves == Init /\ [][Tick \/ IdentityNext \/ LifecycleNext \/ ListsNext]_vars

\* overlapping submissions of reviews
SpecReviewOverlapping == InitReviewOverlapping /\ [][ReviewSubmitNext]_vars

\* likes and reports, served one after the other
SpecReactions == InitReactions /\ [][Tick \/ LikeNext \/ ReportNext]_vars

\* overlapping reports
SpecReportOverlapping == InitReportOverlapping /\ [][ReportNext]_vars

\* overlapping add-movie and remove-movie requests
SpecWatchlistOverlapping == InitWatchlistOverlapping /\ [][WatchlistMoviesNext]_vars

---------------------------------------------------------------------------
(* Claims *)

\* the account with the email a client submits, if any
AccountOf(email) == {id \in UserIds : users[id].email = Lower(email)}

\* C1: Login issues a token only for an account whose isEmailVerified is
\* true; for an account that is not verified, as Register leaves it, a Login
\* with its email and its password is answered 403 EmailNotVerified without
\* a token.
C1_LoginNeedsVerifiedEmail ==
    [][\A email \in Emails, password \in Passwords :
         Login(email, password) =>
           /\ resp'.token # NoToken =>
                \E id \in AccountOf(email) : users[id].isEmailVerified
           /\ \A id \in AccountOf(email) :
                (users[id].password = HashPassword(password)
                   /\ ~users[id].isEmailVerified) =>
                  /\ resp'.status = 403
                  /\ resp'.success = FALSE
                  /\ resp'.emailVerificationRequired = "true"
                  /\ resp'.email = users[id].email
                  /\ resp'.token = NoToken]_vars

\* bob registered in this behaviour and his Login was refused as not verified
C1_Witness ==
    /\ resp.op = "login"
    /\ resp.status = 403
    /\ resp.email = "bob@x.com"
    /\ \E id \in UserIds : users[id].email = "bob@x.com" /\ ~users[id].isEmailVerified

\* C2, as claimed: VerifyEmail(email, code) finds an account only when the
\* account with that email stores a token equal to code with an expiry later
\* than now; any other non-empty code is answered InvalidOrExpiredCode and
\* changes nothing.
C2_VerifyEmailOnlyWithStoredCode ==
    [][\A r \in Slots, email \in Emails, code \in SubmittedCodes \ {Empty} :
         VerifyEmailFind(r, email, code) =>
           \/ \E id \in AccountOf(email) :
                /\ users[id].emailVerificationToken = code
                /\ users[id].emailVerificationExpires # NullDate
                /\ users[id].emailVerificationExpires > now
           \/ /\ resp'.status = 400
              /\ resp'.message = "Invalid or expired verification code"
              /\ users' = users
              /\ inflight' = inflight]_vars

\* C3: a successful VerifyEmail sets isEmailVerified and clears the token and
\* the expiry of the account, and while they are cleared every VerifyEmail
\* for the account, whatever code it carries, is answered
\* InvalidOrExpiredCode and changes nothing.
C3_VerificationCodeSingleUse ==
    [][/\ \A r \in Slots, delivery \in Deliveries :
            VerifyEmailSave(r, delivery) =>
              /\ resp'.success
              /\ users'[inflight[r].id].isEmailVerified
              /\ users'[inflight[r].id].emailVerificationToken = Null
              /\ users'[inflight[r].id].emailVerificationExpires = NullDate
       /\ \A r \in Slots, email \in Emails, code \in SubmittedCodes \ {Empty} :
            (/\ VerifyEmailFind(r, email, code)
             /\ \E id \in AccountOf(email) :
                  users[id].isEmailVerified /\ users[id].emailVerificationToken = Null) =>
              /\ resp'.status = 400
              /\ resp'.message = "Invalid or expired verification code"
              /\ users' = users
              /\ inflight' = inflight]_vars

\* ana is verified, her code is cleared, and a VerifyEmail was refused
C3_Witness ==
    /\ resp.op = "verify-email"
    /\ resp.status = 400
    /\ resp.message = "Invalid or expired verification code"
    /\ budget = 0
    /\ users = <<VerifiedUser(Ana)>>

\* C4: ResetPassword with the reset code of an account whose
\* passwordResetExpires is not later than now is answered
\* InvalidOrExpiredCode and leaves every account as it is.
C4_ExpiredResetCodeRefused ==
    [][\A r \in Slots, email \in Emails, code \in Codes, newPassword \in Passwords :
         (/\ \E id \in AccountOf(email) :
               /\ users[id].passwordResetToken = code
               /\ users[id].passwordResetExpires <= now
          /\ ResetPasswordFind(r, email, code, newPassword)) =>
           /\ resp'.status = 400
           /\ resp'.message = "Invalid or expired reset code"
           /\ users' = users
           /\ inflight' = inflight]_vars

\* ana holds a reset code that expires now, and a ResetPassword was refused
C4_Witness ==
    /\ resp.op = "reset-password"
    /\ resp.status = 400
    /\ resp.message = "Invalid or expired reset code"
    /\ \E id \in UserIds :
         /\ users[id].passwordResetToken \in Codes
         /\ users[id].passwordResetExpires = now
         /\ users[id].password = HashPassword("secret1")

\* C5: a successful ResetPassword stores the hash of the new password and
\* clears the reset token and its expiry, and while they are cleared every
\* ResetPassword for the account is answered InvalidOrExpiredCode and changes
\* nothing.
C5_ResetCodeSingleUse ==
    [][/\ \A r \in Slots :
            ResetPasswordSave(r) =>
              /\ resp'.success
              /\ users'[inflight[r].id].password = HashPassword(inflight[r].req.newPassword)
              /\ users'[inflight[r].id].passwordResetToken = Null
              /\ users'[inflight[r].id].passwordResetExpires = NullDate
       /\ \A r \in Slots, email \in Emails, code \in SubmittedCodes \ {Empty},
             newPassword \in Passwords :
            (/\ \E id \in AccountOf(email) : users[id].passwordResetToken = Null
             /\ ResetPasswordFind(r, email, code, newPassword)) =>
              /\ resp'.status = 400
              /\ resp'.message = "Invalid or expired reset code"
              /\ users' = users
              /\ inflight' = inflight]_vars

\* the password of ana was reset to secret2, her reset code is cleared, and a
\* second ResetPassword was refused
C5_Witness ==
    /\ resp.op = "reset-password"
    /\ resp.status = 400
    /\ resp.message = "Invalid or expired reset code"
    /\ budget = 0
    /\ users = <<PasswordResetUser(VerifiedUser(Ana), "secret2")>>

\* C6, as claimed: a Register for a username or an email that an account
\* already has is answered DuplicateAccount, whether the account is there
\* when Register looks it up or is created by an overlapping Register before
\* this one saves, and it leaves every account as it is.
C6_RegisterDuplicateAccount ==
    [][/\ \A r \in Slots, username \in Usernames, email \in Emails, password \in Passwords :
            (/\ RegisterFind(r, username, email, password)
             /\ \E id \in UserIds :
                  users[id].username = username \/ users[id].email = Lower(email)) =>
              /\ resp'.status = 400
              /\ resp'.message = "User already exists"
              /\ users' = users
       /\ \A r \in Slots, verificationCode \in Codes, delivery \in Deliveries :
            (/\ RegisterSave(r, verificationCode, delivery)
             /\ \E id \in UserIds :
                  \/ users[id].username = inflight[r].req.username
                  \/ users[id].email = Lower(inflight[r].req.email)) =>
              /\ resp'.status = 400
              /\ resp'.message = "User already exists"
              /\ users' = users]_vars

\* C7: no two accounts share a username and no two accounts share an email,
\* whatever the interleaving of Register and profile-update requests.
C7_UniqueUsernameAndEmail ==
    \A i, j \in UserIds :
      i # j => users[i].username # users[j].username /\ users[i].email # users[j].email

\* a profile update passed its existence checks, a Register took the name
\* meanwhile, and the store rejected the update
C7_Witness ==
    /\ resp.op = "profile"
    /\ resp.status = 500
    /\ Len(users) = 2

\* C8: Login answers with the same response when no account has the email
\* and when the account has another password: status 400, InvalidCredentials
\* and nothing else.
C8_LoginSameInvalidCredentials ==
    [][\A email \in Emails, password \in Passwords :
         (/\ Login(email, password)
          /\ \/ AccountOf(email) = {}
             \/ \E id \in AccountOf(email) : users[id].password # HashPassword(password)) =>
           resp' = [op |-> "login", status |-> 400, success |-> FALSE,
                    message |-> "Invalid credentials", token |-> NoToken,
                    emailVerificationRequired |-> Null, email |-> Null,
                    delivery |-> "none"]]_vars

\* every email has an account, and a Login was refused for its password
C8_Witness ==
    /\ resp.op = "login"
    /\ resp.status = 400
    /\ {users[id].email : id \in UserIds} = {Lower(email) : email \in Emails}
    /\ budget = 0

\* C9, as claimed: ForgotPassword answers an email that has an account as it
\* answers one that has none, whatever becomes of the mail: status 200,
\* success and the same general message.
C9_ForgotPasswordSameResponse ==
    [][/\ \A r \in Slots, email \in Emails :
            (ForgotPasswordFind(r, email) /\ resp' # resp) =>
              /\ resp'.status = 200
              /\ resp'.success
              /\ resp'.message = "If an account with that email exists, a password reset code has been sent."
       /\ \A r \in Slots, resetCode \in Codes, delivery \in Deliveries :
            ForgotPasswordSave(r, resetCode, delivery) =>
              /\ resp'.status = 200
              /\ resp'.success
              /\ resp'.message = "If an account with that email exists, a password reset code has been sent."]_vars

\* C10: when the delivery of the code fails, Register still stores the
\* account, not verified, with the code and an expiry one hour after the
\* handler read the clock, and answers 201 with a token for the account and
\* emailVerificationRequired true.
C10_RegisterSurvivesMailFailure ==
    [][/\ \A r \in Slots, username \in Usernames, email \in Emails, password \in Passwords :
            (RegisterFind(r, username, email, password) /\ inflight' # inflight) =>
              inflight'[r].expires = now + HOUR
       /\ \A r \in Slots, verificationCode \in Codes :
            RegisterSave(r, verificationCode, "failed") =>
              /\ Len(users') = Len(users) + 1
              /\ users'[Len(users')].username = inflight[r].req.username
              /\ users'[Len(users')].email = Lower(inflight[r].req.email)
              /\ ~users'[Len(users')].isEmailVerified
              /\ users'[Len(users')].emailVerificationToken = verificationCode
              /\ users'[Len(users')].emailVerificationExpires = inflight[r].expires
              /\ resp'.status = 201
              /\ resp'.success
              /\ resp'.token = [kind |-> "jwt", userId |-> Len(users')]
              /\ resp'.emailVerificationRequired = "true"]_vars

\* bob registered, the mail with his code was not delivered, and his account
\* is stored with the code
C10_Witness ==
    /\ resp.op = "register"
    /\ resp.status = 201
    /\ resp.delivery = "failed"
    /\ resp.token = [kind |-> "jwt", userId |-> Len(users)]
    /\ users[Len(users)].email = "bob@x.com"
    /\ ~users[Len(users)].isEmailVerified
    /\ users[Len(users)].emailVerificationToken \in Codes

\* C11: ResendVerification, by email or by session token, on an account whose
\* isEmailVerified is true is answered AlreadyVerified and changes nothing;
\* on an account that is not verified it stores the new code in place of the
\* old one, with an expiry one hour after the handler read the clock.
C11_ResendOnlyForUnverified ==
    [][/\ \A r \in Slots, email \in Emails :
            ResendByEmailFind(r, email) =>
              \A id \in AccountOf(email) :
                IF users[id].isEmailVerified
                THEN /\ resp'.status = 400
                     /\ resp'.message = "Email is already verified"
                     /\ users' = users
                     /\ inflight' = inflight
                ELSE /\ inflight'[r].id = id
                     /\ inflight'[r].expires = now + HOUR
       /\ \A r \in Slots, token \in AuthHeaders :
            (ResendByTokenFind(r, token) /\ Authenticate(token) # 0) =>
              IF users[Authenticate(token)].isEmailVerified
              THEN /\ resp'.status = 400
                   /\ resp'.message = "Email is already verified"
                   /\ users' = users
                   /\ inflight' = inflight
              ELSE /\ inflight'[r].id = Authenticate(token)
                   /\ inflight'[r].expires = now + HOUR
       /\ \A r \in Slots, verificationCode \in Codes, delivery \in Deliveries :
            ResendSave(r, verificationCode, delivery) =>
              /\ ~users[inflight[r].id].isEmailVerified
              /\ users'[inflight[r].id].emailVerificationToken = verificationCode
              /\ users'[inflight[r].id].emailVerificationExpires = inflight[r].expires
              /\ ~users'[inflight[r].id].isEmailVerified
              /\ \A i \in UserIds : i # inflight[r].id => users'[i] = users[i]]_vars

\* ana asked by session token for a new code at time 1: the code 999999 took
\* the place of 100000 and expires at time 2
C11_Witness ==
    /\ resp.op = "resend-verification"
    /\ resp.status = 200
    /\ users = <<ReissuedUser(Ana, "999999", 1 + HOUR)>>

\* C12, as claimed: once ResendVerification has stored its fresh code, a
\* VerifyEmail with the code the account held before finds no account, and
\* once a second ForgotPassword has stored its fresh code, a ResetPassword
\* with the reset code the account held before finds no account.
C12_FreshCodeInvalidatesPrevious ==
    [][\A r \in Slots, email \in Emails, previous \in Codes :
         /\ \A verificationCode \in Codes, delivery \in Deliveries :
              (/\ ResendSave(r, verificationCode, delivery)
               /\ users[inflight[r].id].email = Lower(email)
               /\ users[inflight[r].id].emailVerificationToken = previous) =>
                (FindByVerificationCode(email, previous) = {})'
         /\ \A resetCode \in Codes, delivery \in Deliveries :
              (/\ ForgotPasswordSave(r, resetCode, delivery)
               /\ users[inflight[r].id].email = Lower(email)
               /\ users[inflight[r].id].passwordResetToken = previous) =>
                (FindByResetCode(email, previous) = {})']_vars

\* C12 for a fresh code that differs from the previous one: the previous
\* code finds no account once the fresh one is stored.
FreshCodeThatDiffersInvalidatesPrevious ==
    [][\A r \in Slots, email \in Emails, previous \in Codes :
         /\ \A verificationCode \in Codes \ {previous}, delivery \in Deliveries :
              (/\ ResendSave(r, verificationCode, delivery)
               /\ users[inflight[r].id].email = Lower(email)
               /\ users[inflight[r].id].emailVerificationToken = previous) =>
                (FindByVerificationCode(email, previous) = {})'
         /\ \A resetCode \in Codes \ {previous}, delivery \in Deliveries :
              (/\ ForgotPasswordSave(r, resetCode, delivery)
               /\ users[inflight[r].id].email = Lower(email)
               /\ users[inflight[r].id].passwordResetToken = previous) =>
                (FindByResetCode(email, previous) = {})']_vars

\* C13: when the delivery of the mail fails, ResendVerification and
\* ForgotPassword answer with an error, yet the new code and its expiry are
\* stored, and a VerifyEmail or ResetPassword that submits the stored code
\* before its expiry finds the account and succeeds.
C13_MailFailureKeepsCode ==
    [][\A r \in Slots :
         /\ \A verificationCode \in Codes :
              ResendSave(r, verificationCode, "failed") =>
                /\ resp'.status = 500
                /\ ~resp'.success
                /\ users'[inflight[r].id].emailVerificationToken = verificationCode
                /\ users'[inflight[r].id].emailVerificationExpires = inflight[r].expires
         /\ \A resetCode \in Codes :
              ForgotPasswordSave(r, resetCode, "failed") =>
                /\ resp'.status = 500
                /\ ~resp'.success
                /\ users'[inflight[r].id].passwordResetToken = resetCode
                /\ users'[inflight[r].id].passwordResetExpires = inflight[r].expires
         /\ \A email \in Emails, code \in Codes, id \in UserIds :
              (/\ users[id].email = Lower(email)
               /\ users[id].emailVerificationToken = code
               /\ users[id].emailVerificationExpires > now
               /\ VerifyEmailFind(r, email, code)) =>
                /\ inflight'[r].op = "verify-email"
                /\ inflight'[r].id = id
         /\ \A delivery \in Deliveries :
              VerifyEmailSave(r, delivery) =>
                resp'.success /\ users'[inflight[r].id].isEmailVerified
         /\ \A email \in Emails, code \in Codes, newPassword \in Passwords, id \in UserIds :
              (/\ users[id].email = Lower(email)
               /\ users[id].passwordResetToken = code
               /\ users[id].passwordResetExpires > now
               /\ ResetPasswordFind(r, email, code, newPassword)) =>
                /\ inflight'[r].op = "reset-password"
                /\ inflight'[r].id = id
         /\ ResetPasswordSave(r) =>
              /\ resp'.success
              /\ users'[inflight[r].id].password =
                   HashPassword(inflight[r].req.newPassword)]_vars

\* the mail with the new code 999999 of ana was not delivered and the resend
\* was answered with an error; a VerifyEmail with 999999 then found her account
C13_Witness ==
    /\ resp.op = "resend-verification-code"
    /\ resp.status = 500
    /\ resp.delivery = "failed"
    /\ \E r \in Slots :
         /\ inflight[r].op = "verify-email"
         /\ inflight[r].req.code = "999999"
         /\ users[inflight[r].id].emailVerificationToken = "999999"

\* C14, as claimed: whatever session token the client holds, VerifyEmail
\* finds an account only when the submitted code is the stored, unexpired
\* verification code of the account, and ResetPassword only when it is the
\* stored, unexpired reset code, so that neither a session token nor the code
\* of the other purpose stands in for it; and a protected operation answers a
\* six-digit code sent as the bearer token with 401 and changes nothing.
C14_CredentialClassesIndependent ==
    [][\A r \in Slots :
         /\ \A email \in Emails, code \in SubmittedCodes \ {Empty} :
              (VerifyEmailFind(r, email, code) /\ inflight' # inflight) =>
                /\ users[inflight'[r].id].emailVerificationToken = code
                /\ users[inflight'[r].id].emailVerificationExpires > now
         /\ \A email \in Emails, code \in SubmittedCodes \ {Empty}, newPassword \in Passwords :
              (ResetPasswordFind(r, email, code, newPassword) /\ inflight' # inflight) =>
                /\ users[inflight'[r].id].passwordResetToken = code
                /\ users[inflight'[r].id].passwordResetExpires > now
         /\ \A code \in Codes :
              /\ ResendByTokenFind(r, CodeAsToken(code)) =>
                   /\ resp'.status = 401
                   /\ users' = users
                   /\ inflight' = inflight
              /\ \A username \in Usernames \cup {Empty}, email \in Emails \cup {Empty} :
                   ProfileAuth(r, CodeAsToken(code), username, email) =>
                     /\ resp'.status = 401
                     /\ users' = users
                     /\ inflight' = inflight]_vars

\* C14 for codes and tokens submitted as strings: the same statement without
\* the operator object in the code field.
CredentialClassesIndependentForStrings ==
    [][\A r \in Slots :
         /\ \A email \in Emails, code \in SubmittedCodes \ {Empty, NeNull} :
              (VerifyEmailFind(r, email, code) /\ inflight' # inflight) =>
                /\ users[inflight'[r].id].emailVerificationToken = code
                /\ users[inflight'[r].id].emailVerificationExpires > now
         /\ \A email \in Emails, code \in SubmittedCodes \ {Empty, NeNull},
               newPassword \in Passwords :
              (ResetPasswordFind(r, email, code, newPassword) /\ inflight' # inflight) =>
                /\ users[inflight'[r].id].passwordResetToken = code
                /\ users[inflight'[r].id].passwordResetExpires > now
         /\ \A code \in Codes :
              /\ ResendByTokenFind(r, CodeAsToken(code)) =>
                   /\ resp'.status = 401
                   /\ users' = users
                   /\ inflight' = inflight
              /\ \A username \in Usernames \cup {Empty}, email \in Emails \cup {Empty} :
                   ProfileAuth(r, CodeAsToken(code), username, email) =>
                     /\ resp'.status = 401
                     /\ users' = users
                     /\ inflight' = inflight]_vars

\* C15: a protected operation runs its handler only when the bearer token is
\* one jwt.verify accepts and names an account in the store; every other
\* request is answered 401 and changes nothing.
C15_ProtectedNeedsValidToken ==
    [][\A r \in Slots, token \in AuthHeaders :
         LET valid == token.kind = "jwt" /\ token.userId \in DOMAIN users
             rejected == /\ resp'.status = 401
                         /\ ~resp'.success
                         /\ resp'.message \in {"No token provided, authorization denied",
                                               "Token is not valid"}
                         /\ users' = users
                         /\ inflight' = inflight
         IN  /\ ResendByTokenFind(r, token) =>
                  IF valid
                  THEN \/ inflight'[r].op = "resend-verification"
                       \/ resp'.op = "resend-verification" /\ resp'.status # 401
                  ELSE rejected
             /\ \A username \in Usernames \cup {Empty}, email \in Emails \cup {Empty} :
                  ProfileAuth(r, token, username, email) =>
                    IF valid
                    THEN inflight'[r].op = "profile" /\ inflight'[r].id = token.userId
                    ELSE rejected]_vars

\* ana has an account, and a profile update was rejected for its token
C15_Witness ==
    /\ resp.op = "profile"
    /\ resp.status = 401
    /\ resp.message = "Token is not valid"
    /\ users # <<>>
    /\ budget = 0

\* the number of entries of a list of movies that have the movieId
Entries(movies, movieId) == Cardinality({i \in DOMAIN movies : movies[i].movieId = movieId})

\* C16: add-movie for a movieId that the requester's watchlist already holds
\* is answered DuplicateEntry and changes nothing; for a movieId it does not
\* hold, the movie is appended, and the watchlist then holds exactly one entry
\* for the movieId.
C16_AddMovieDuplicateEntry ==
    [][\A r \in Slots :
         /\ \A token \in AuthHeaders, id \in WatchlistIds \ {Malformed},
               movieId \in MovieIds, title \in Titles :
              (/\ token.kind = "jwt"
               /\ id \in DOMAIN watchlists
               /\ watchlists[id].user = token.userId
               /\ AddMovieFind(r, token, id, movieId, title)) =>
                IF \E i \in DOMAIN watchlists[id].movies :
                     watchlists[id].movies[i].movieId = movieId
                THEN /\ resp'.status = 400
                     /\ resp'.message = "Movie already exists in this watchlist"
                     /\ watchlists' = watchlists
                     /\ inflight' = inflight
                ELSE /\ inflight'[r].op = "add-movie"
                     /\ inflight'[r].id = id
                     /\ inflight'[r].movie = [movieId |-> movieId, title |-> title]
         /\ AddMovieSave(r) =>
              /\ resp'.success
              /\ watchlists'[inflight[r].id].movies =
                   Append(watchlists[inflight[r].id].movies, inflight[r].movie)
              /\ Entries(watchlists'[inflight[r].id].movies, inflight[r].movie.movieId) = 1]_vars

\* ana added movie 1 to her empty watchlist, and added it again: the second
\* request was refused and the watchlist holds the movie once
C16_Witness ==
    /\ resp.op = "add-movie"
    /\ resp.status = 400
    /\ resp.message = "Movie already exists in this watchlist"
    /\ budget = 0
    /\ watchlists = <<[NewWatchlist(1, "todo", FALSE) EXCEPT !.movies = <<Heat(1)>>, !.v = 1]>>

\* C17, as claimed: in every reachable state no watchlist holds two entries
\* with the same movieId, whatever the interleaving of add-movie and
\* remove-movie requests.
C17_WatchlistMoviesUnique ==
    \A id \in DOMAIN watchlists : \A movieId \in MovieIds :
      Entries(watchlists[id].movies, movieId) <= 1

\* C18: remove-movie for a movieId that the requester's watchlist does not
\* hold is answered EntryNotFound and changes nothing; for a movieId it holds,
\* the save deletes the entry of the movieId and keeps the other entries in
\* their order.
C18_RemoveMovieEntryNotFound ==
    [][\A r \in Slots :
         /\ \A token \in AuthHeaders, id \in WatchlistIds \ {Malformed}, movieId \in MovieIds :
              (/\ token.kind = "jwt"
               /\ id \in DOMAIN watchlists
               /\ watchlists[id].user = token.userId
               /\ RemoveMovieFind(r, token, id, movieId)) =>
                IF Entries(watchlists[id].movies, movieId) = 0
                THEN /\ resp'.status = 404
                     /\ resp'.message = "Movie not found in this watchlist"
                     /\ watchlists' = watchlists
                     /\ inflight' = inflight
                ELSE /\ inflight'[r].op = "remove-movie"
                     /\ inflight'[r].id = id
                     /\ inflight'[r].req.movieId = movieId
         /\ RemoveMovieSave(r) =>
              LET old == watchlists[inflight[r].id].movies
              IN  /\ resp'.success
                  /\ \E i \in DOMAIN old :
                       /\ old[i].movieId = inflight[r].req.movieId
                       /\ watchlists'[inflight[r].id].movies =
                            SubSeq(old, 1, i - 1) \o SubSeq(old, i + 1, Len(old))
                  /\ \A id \in DOMAIN watchlists :
                       id # inflight[r].id => watchlists'[id] = watchlists[id]]_vars

\* ana removed movie 1 from her watchlist of movies 2, 1 and 3, and then tried
\* to remove it again: movies 2 and 3 are left, in this order
C18_Witness ==
    /\ resp.op = "remove-movie"
    /\ resp.status = 404
    /\ resp.message = "Movie not found in this watchlist"
    /\ budget = 0
    /\ watchlists = <<[NewWatchlist(1, "todo", FALSE) EXCEPT !.movies = <<Heat(2), Heat(3)>>, !.v = 4]>>

\* the 404 of a route, the same for every request of the route
NotFoundOrForbidden(op, message) ==
    [op |-> op, status |-> 404, success |-> FALSE, message |-> message,
     token |-> NoToken, emailVerificationRequired |-> Null, email |-> Null,
     delivery |-> "none"]

C20_ReviewUpsert ==
    [][\A r \in Slots :
         /\ \A token \in AuthHeaders, movieId \in MovieIds, rating \in Ratings,
               review \in Bodies, spoiler \in BOOLEAN :
              (/\ inflight' # inflight
               /\ SubmitReviewFind(r, token, movieId, rating, review, spoiler)) =>
                /\ inflight'[r].user = token.userId
                /\ \A id \in DOMAIN reviews :
                     (reviews[id].user = token.userId /\ reviews[id].movieId = movieId) =>
                       inflight'[r].existing = id
         /\ SubmitReviewSave(r) =>
              LET req == inflight[r].req
                  stored == {id \in DOMAIN reviews' :
                               /\ reviews'[id].user = inflight[r].user
                               /\ reviews'[id].movieId = req.movieId}
              IN  /\ resp'.success
                  /\ Cardinality(stored) = 1
                  /\ \A id \in stored :
                       /\ reviews'[id].rating = req.rating
                       /\ reviews'[id].review = req.review
                       /\ reviews'[id].spoiler = req.spoiler
                  /\ Len(reviews') =
                       Len(reviews) + (IF inflight[r].existing = 0 THEN 1 ELSE 0)]_vars

\* ana reviewed movie 2 and then submitted a second review for it: one review
\* is stored, with the rating, body and spoiler flag of the second
C20_Witness ==
    /\ resp.op = "review"
    /\ resp.status = 200
    /\ resp.message = "Review updated successfully"
    /\ budget = 0
    /\ Len(reviews) = 1
    /\ reviews[1].user = 1
    /\ reviews[1].movieId = 2
    /\ reviews[1].title = "Heat"
    /\ reviews[1].rating = 10
    /\ reviews[1].review = "dull"
    /\ reviews[1].spoiler
    /\ reviews[1].likes = <<>>
    /\ reviews[1].reports = <<>>

\* the reviews of account user for movie movieId that are stored
ReviewsOf(user, movieId) ==
    {id \in DOMAIN reviews : reviews[id].user = user /\ reviews[id].movieId = movieId}

\* C21: at every moment at most one review is stored per account and movie,
\* also while submissions overlap; and a submission that found no review and
\* comes to its insert when the account has a review for the movie is
\* answered 400 "Review already exists for this movie" and stores nothing.
C21_OneReviewPerAccountAndMovie ==
    /\ [](\A user \in UserIds, movieId \in MovieIds :
            Cardinality(ReviewsOf(user, movieId)) <= 1)
    /\ [][\A r \in Slots :
            (/\ inflight[r].op = "review"
             /\ inflight[r].existing = 0
             /\ ReviewsOf(inflight[r].user, inflight[r].req.movieId) # {}
             /\ SubmitReviewSave(r)) =>
              /\ resp'.status = 400
              /\ ~resp'.success
              /\ resp'.message = "Review already exists for this movie"
              /\ reviews' = reviews]_vars

\* two submissions of ana for movie 2 both found no review; the first one
\* inserted hers, the second was refused, and one review is stored
C21_Witness ==
    /\ resp.op = "review"
    /\ resp.status = 400
    /\ resp.message = "Review already exists for this movie"
    /\ budget = 0
    /\ InFlight = {}
    /\ reviews # <<>>
    /\ \A id \in DOMAIN reviews : reviews[id].user = 1 /\ reviews[id].movieId = 2

\* the accounts in the array likes
Likers(likes) == {likes[i] : i \in DOMAIN likes}

\* C22: a like by an account with a session on a stored review is carried
\* out, and it flips the membership of that account in the likers of the
\* review: the account is added when it was not a liker and removed when it
\* was, the other likers stay, every other field of the review and every other
\* review stays as it was, and the response tells the new membership and, as
\* likesCount, the number of likers.  A second toggle by the account so
\* restores the set.
C22_LikeTogglesMembership ==
    [][\A r \in Slots :
         /\ \A token \in AuthHeaders, id \in ReviewIds \ {Malformed} :
              (/\ token.kind = "jwt"
               /\ token.userId \in UserIds
               /\ id \in DOMAIN reviews
               /\ ToggleLikeFind(r, token, id)) =>
                /\ inflight'[r].op = "like"
                /\ inflight'[r].id = id
                /\ inflight'[r].user = token.userId
         /\ (inflight[r].op = "like" /\ ToggleLikeSave(r)) =>
              LET id == inflight[r].id
                  user == inflight[r].user
                  old == Likers(reviews[id].likes)
                  new == Likers(reviews'[id].likes)
              IN  /\ new = IF user \in old THEN old \ {user} ELSE old \cup {user}
                  /\ resp'.success
                  /\ resp'.liked = (user \notin old)
                  /\ resp'.likesCount = Cardinality(new)
                  /\ resp'.likesCount = Len(reviews'[id].likes)
                  /\ reviews' = [reviews EXCEPT ![id].likes = reviews'[id].likes,
                                                ![id].v = reviews'[id].v]]_vars

\* ana and bob liked the review; ana then unliked it and liked it again: the
\* likers are ana and bob as before
C22_Witness ==
    /\ resp.op = "like"
    /\ resp.success
    /\ resp.liked
    /\ resp.likesCount = 2
    /\ budget = 0
    /\ reviews[1].likes = <<2, 1>>
    /\ reviews[1].v = 4

\* the reports of account user in the array reports
ReportsBy(reports, user) == {i \in DOMAIN reports : reports[i].user = user}

\* C23, as claimed: at every moment each review holds at most one report per
\* reporting account, also while reports overlap, and a report by an account
\* that has reported the review is answered 400 "You have already reported
\* this review" and leaves the reports as they are.
C23_OneReportPerAccount ==
    /\ [](\A id \in DOMAIN reviews, user \in UserIds :
            Cardinality(ReportsBy(reviews[id].reports, user)) <= 1)
    /\ [][\A r \in Slots, token \in AuthHeaders, id \in ReviewIds \ {Malformed},
             reason \in Reasons :
            (/\ token.kind = "jwt"
             /\ token.userId \in UserIds
             /\ id \in DOMAIN reviews
             /\ Trim(reason) # Empty
             /\ ReportsBy(reviews[id].reports, token.userId) # {}
             /\ ReportFind(r, token, id, reason)) =>
              /\ resp'.status = 400
              /\ resp'.message = "You have already reported this review"
              /\ reviews' = reviews
              /\ inflight' = inflight]_vars

\* the entries of movies are unique by movieId
UniqueByMovieId(movies) ==
    \A i, j \in DOMAIN movies : movies[i].movieId = movies[j].movieId => i = j

\* C24, as claimed: at every moment the favorites of every account are unique
\* by movieId, and so are its watched movies.
C24_ListsUniqueByMovieId ==
    \A id \in UserIds :
      /\ UniqueByMovieId(users[id].favoriteMovies)
      /\ UniqueByMovieId(users[id].watchedMovies)

\* C25: at every moment the stored password of every account is the hash of
\* a clear password, and never a clear password or the hash of a hash; the
\* account Register inserts holds the hash of the submitted password, and the
\* stored password of an account changes in ResetPassword only, to the hash
\* of the submitted new password.
C25_PasswordStoredHashed ==
    /\ [](\A id \in UserIds :
            /\ users[id].password \in {HashPassword(p) : p \in Passwords}
            /\ users[id].password \notin Passwords)
    /\ [][/\ \A id \in DOMAIN users' \ DOMAIN users :
              \E r \in Slots :
                /\ inflight[r].op = "register"
                /\ users'[id].password = HashPassword(inflight[r].req.password)
          /\ \A id \in UserIds :
              users'[id].password # users[id].password =>
                \E r \in Slots :
                  /\ inflight[r].op = "reset-password"
                  /\ inflight[r].id = id
                  /\ inflight'[r] = Idle
                  /\ users'[id].password = HashPassword(inflight[r].req.newPassword)]_vars

\* the password of ana was reset to secret2, and she then added a favorite:
\* the stored password is the hash of secret2
C25_Witness ==
    /\ Len(users) = 1
    /\ users[1].password = HashPassword("secret2")
    /\ users[1].favoriteMovies # <<>>
    /\ resp.op = "add-favorite"
    /\ resp.success

\* the verification state of an account
VerificationState(user) ==
    <<user.isEmailVerified, user.emailVerificationToken, user.emailVerificationExpires>>

\* C26: every step of a ForgotPassword or a ResetPassword request, whether
\* the request is refused, fails at the mail or succeeds, leaves
\* isEmailVerified, emailVerificationToken and emailVerificationExpires of
\* every account as they were, and adds or removes no account.
C26_ResetKeepsVerificationState ==
    [][(\/ \E r \in Slots, email \in Emails : ForgotPasswordFind(r, email)
        \/ \E r \in Slots, resetCode \in Codes, delivery \in Deliveries :
             ForgotPasswordSave(r, resetCode, delivery)
        \/ \E r \in Slots, email \in Emails, code \in SubmittedCodes,
              newPassword \in Passwords :
             ResetPasswordFind(r, email, code, newPassword)
        \/ \E r \in Slots : ResetPasswordSave(r)) =>
         /\ DOMAIN users' = DOMAIN users
         /\ \A id \in UserIds :
              VerificationState(users'[id]) = VerificationState(users[id])]_vars

\* ana, who is not verified and holds the verification code 100000, asked
\* for a reset code and reset her password with it: she still is not verified
\* and holds the code
C26_Witness ==
    /\ resp.op = "reset-password"
    /\ resp.success
    /\ Len(users) = 1
    /\ ~users[1].isEmailVerified
    /\ users[1].emailVerificationToken = "100000"
    /\ users[1].password = HashPassword("secret2")

---------------------------------------------------------------------------
(* Login after a password reset *)

\* the response POST /auth/login gives to these credentials in a state
LoginResponse(email, password) ==
    LET req == [email |-> email, password |-> password]
        found == FindByEmail(email)
    IN  IF found = {} THEN LoginNoUser(req)
        ELSE LoginChecks(req, CHOOSE id \in found : TRUE)

\* the save of a reset-password request for email and newPassword on a
\* verified account whose password was previous
ResetSavedFor(r, id, email, newPassword, previous) ==
    /\ inflight[r].op = "reset-password"
    /\ inflight[r].id = id
    /\ inflight[r].req.email = email
    /\ inflight[r].req.newPassword = newPassword
    /\ users[id].isEmailVerified
    /\ users[id].password = HashPassword(previous)
    /\ ResetPasswordSave(r)

\* C27 as claimed: after a successful ResetPassword(email, code, newPassword)
\* on a verified account, Login with newPassword succeeds and returns a
\* token, and Login with the previous password fails with "Invalid
\* credentials", whatever the two passwords are
C27_ResetReplacesPassword ==
    [][\A r \in Slots, id \in UserIds, email \in Emails,
          newPassword \in Passwords, previous \in Passwords :
         ResetSavedFor(r, id, email, newPassword, previous) =>
           /\ resp'.status = 200
           /\ LoginResponse(email, newPassword)'.success
           /\ LoginResponse(email, newPassword)'.token = GenerateToken(id)
           /\ LoginResponse(email, previous)' =
                LoginBadPassword([email |-> email, password |-> previous])]_vars

\* C27 amended: after a successful ResetPassword(email, code, newPassword) on
\* a verified account, Login with newPassword succeeds and returns a token,
\* and Login with the previous password fails with "Invalid credentials" when
\* newPassword differs from the previous password; a Login is answered as
\* LoginResponse says
C27_ResetReplacesDifferentPassword ==
    /\ [][\A r \in Slots, id \in UserIds, email \in Emails,
             newPassword \in Passwords, previous \in Passwords :
            ResetSavedFor(r, id, email, newPassword, previous) =>
              /\ resp'.status = 200
              /\ LoginResponse(email, newPassword)'.success
              /\ LoginResponse(email, newPassword)'.token = GenerateToken(id)
              /\ newPassword # previous =>
                   LoginResponse(email, previous)' =
                     LoginBadPassword([email |-> email, password |-> previous])]_vars
    /\ [][\A email \in Emails, password \in Passwords :
            Login(email, password) => resp' = LoginResponse(email, password)]_vars

\* two requests were served: ana's password was reset from secret1 to
\* secret2, and her Login with secret2 was answered with a token
C27_Witness ==
    /\ budget = MaxRequests - 2
    /\ Len(users) = 1
    /\ users[1].isEmailVerified
    /\ users[1].password = HashPassword("secret2")
    /\ users[1].passwordResetToken = Null
    /\ resp.op = "login"
    /\ resp.success
    /\ resp.token = GenerateToken(1)

---------------------------------------------------------------------------
(* The lifecycle Register, VerifyEmail, Login *)

\* the response a Login answers a verified account with
LoggedIn(response, id) ==
    /\ response.status = 200
    /\ response.success
    /\ response.token = GenerateToken(id)
    /\ response.token # NoToken
    /\ response.emailVerificationRequired = "false"

---------------------------------------------------------------------------
(* What the responses disclose *)

\* the codes of accounts that the body of a response carries
DisclosedCodes(response) ==
    IF "user" \notin DOMAIN response THEN {}
    ELSE {response.user[f] :
            f \in DOMAIN response.user \cap {"emailVerificationToken", "passwordResetToken"}}
           \ {Null}

\* C29: no response discloses an account's emailVerificationToken or
\* passwordResetToken; an unverified account cannot read its verification
\* code through profile update, avatar upload, avatar delete, profile read
\* or /me
C29_NoResponseDisclosesCodes == DisclosedCodes(resp) = {}

---------------------------------------------------------------------------
(* A code is used once *)

\* C30: an issued reset code authorizes at most one successful password
\* change and an issued verification code at most one successful VerifyEmail,
\* also when two requests with the same valid code overlap: a request
\* succeeds only while the account still holds the code, which the success
\* clears
C30_CodeUsedOnce ==
    /\ [][\A r \in Slots, delivery \in Deliveries :
            (/\ inflight[r].op = "verify-email"
             /\ VerifyEmailSave(r, delivery)
             /\ resp'.success) =>
               /\ users[inflight[r].id].emailVerificationToken # Null
               /\ Matches(users[inflight[r].id].emailVerificationToken,
                          inflight[r].req.code)
               /\ users'[inflight[r].id].emailVerificationToken = Null]_vars
    /\ [][\A r \in Slots :
            (/\ inflight[r].op = "reset-password"
             /\ ResetPasswordSave(r)
             /\ resp'.success) =>
               /\ users[inflight[r].id].passwordResetToken # Null
               /\ Matches(users[inflight[r].id].passwordResetToken,
                          inflight[r].req.code)
               /\ users'[inflight[r].id].passwordResetToken = Null]_vars

---------------------------------------------------------------------------
(* The routes that ask for a verified email *)

\* a request with this bearer token to a route behind
\* authWithEmailVerification starts
GatedRequest(token) ==
    \/ \E r \in Slots, movieId \in MovieIds, rating \in Ratings,
          review \in Bodies, spoiler \in BOOLEAN :
         SubmitReviewFind(r, token, movieId, rating, review, spoiler)
    \/ \E id \in ReviewIds : DeleteReview(token, id)
    \/ \E r \in Slots, movieId \in SubmittedMovieIds : AddFavoriteFind(r, token, movieId)
    \/ \E r \in Slots, param \in MovieIdParams : RemoveFavoriteFind(r, token, param)
    \/ \E r \in Slots, movieId \in SubmittedMovieIds : AddWatchedFind(r, token, movieId)
    \/ \E r \in Slots, param \in MovieIdParams : RemoveWatchedFind(r, token, param)
    \/ \E outcome \in TmdbOutcomes : PersonalizedRecommendations(token, outcome)

\* C31: a request to create or update a review, delete a review, add or
\* remove a favorite, add or remove a watched movie, or get personalized
\* recommendations, by an authenticated account whose isEmailVerified is
\* false, is answered 403 with emailVerificationRequired = true and changes
\* no stored state
C31_UnverifiedIsRefused ==
    [][\A token \in AuthHeaders :
         (/\ Authenticate(token) # 0
          /\ ~users[Authenticate(token)].isEmailVerified
          /\ GatedRequest(token)) =>
            /\ resp'.status = 403
            /\ ~resp'.success
            /\ resp'.emailVerificationRequired = "true"
            /\ UNCHANGED <<users, reviews, watchlists, inflight>>]_vars

\* bob, who is not verified, asked to add a favorite and was refused
C31_Witness ==
    /\ resp.op = "add-favorite"
    /\ resp.status = 403
    /\ resp.emailVerificationRequired = "true"
    /\ resp.email = "bob@x.com"
    /\ ~users[2].isEmailVerified
    /\ users[2].favoriteMovies = <<>>

---------------------------------------------------------------------------
(* Invariants of the verification state *)

\* C32: verification is monotonic: once isEmailVerified of an account is
\* true it stays true under every operation, a profile update that changes
\* the email included
C32_VerifiedStaysVerified ==
    [][\A id \in UserIds :
         users[id].isEmailVerified =>
           id \in DOMAIN users' /\ users'[id].isEmailVerified]_vars

\* ana, who is verified, changed her email to bob@x.com and is still verified
C32_Witness ==
    /\ resp.op = "profile"
    /\ resp.success
    /\ users[1].username = "ana"
    /\ users[1].email = "bob@x.com"
    /\ users[1].isEmailVerified

\* C33: in every reachable state a verified account has no pending
\* verification code: isEmailVerified = true implies that
\* emailVerificationToken and emailVerificationExpires are both absent
C33_VerifiedHasNoPendingCode ==
    \A id \in UserIds :
      users[id].isEmailVerified =>
        /\ users[id].emailVerificationToken = Null
        /\ users[id].emailVerificationExpires = NullDate

---------------------------------------------------------------------------
(* What Login reveals *)

\* C35: Login reports that the email is not verified, with the email of the
\* account, only after the submitted password has matched: with a wrong
\* password the response is "Invalid credentials" whether the account is
\* verified or not, and carries no flag, no email and no token
C35_NotVerifiedOnlyAfterPassword ==
    [][\A id \in UserIds, email \in Emails, password \in Passwords :
         (/\ users[id].email = Lower(email)
          /\ Login(email, password)) =>
            /\ ~ComparePassword(password, users[id].password) =>
                 /\ resp'.status = 400
                 /\ resp'.message = "Invalid credentials"
                 /\ resp'.emailVerificationRequired = Null
                 /\ resp'.email = Null
                 /\ resp'.token = NoToken
            /\ (resp'.status = 403 \/ resp'.emailVerificationRequired = "true"
                  \/ resp'.email # Null) =>
                 /\ ComparePassword(password, users[id].password)
                 /\ ~users[id].isEmailVerified]_vars

\* both emails have an account, neither is verified, and a Login was
\* refused for its password
C35_Witness ==
    /\ Len(users) = 2
    /\ \A id \in UserIds : ~users[id].isEmailVerified
    /\ {users[id].email : id \in UserIds} = {Lower(email) : email \in Emails}
    /\ resp.op = "login"
    /\ resp.status = 400

---------------------------------------------------------------------------
(* An unverified account can still be verified *)

\* C36: from any state in which an account is unverified, also after its
\* verification code has expired, a ResendVerification is accepted and
\* stores a new code that expires an hour after the request, and a
\* VerifyEmail with that code before the new expiry finds the account,
\* answers success and verifies it
C36_UnverifiedCanStillVerify ==
    /\ [][\A r \in Slots, id \in UserIds, email \in Emails :
            (/\ users[id].email = Lower(email)
             /\ ~users[id].isEmailVerified
             /\ \/ ResendByEmailFind(r, email)
                \/ ResendByTokenFind(r, GenerateToken(id))) =>
               /\ inflight'[r].op \in {"resend-verification-code", "resend-verification"}
               /\ inflight'[r].id = id
               /\ inflight'[r].expires = now + HOUR]_vars
    /\ [][\A r \in Slots, id \in UserIds, email \in Emails,
             verificationCode \in Codes, delivery \in Deliveries :
            (/\ inflight[r].op \in {"resend-verification-code", "resend-verification"}
             /\ inflight[r].id = id
             /\ users[id].email = Lower(email)
             /\ ~users[id].isEmailVerified
             /\ ResendSave(r, verificationCode, delivery)) =>
               /\ users'[id].emailVerificationToken = verificationCode
               /\ users'[id].emailVerificationExpires = inflight[r].expires
               /\ inflight[r].expires > now =>
                    FindByVerificationCode(email, verificationCode)' = {id}]_vars
    /\ [][\A r \in Slots, email \in Emails, code \in Codes :
            (/\ FindByVerificationCode(email, code) # {}
             /\ VerifyEmailFind(r, email, code)) =>
               /\ inflight'[r].op = "verify-email"
               /\ inflight'[r].id \in FindByVerificationCode(email, code)]_vars
    /\ [][\A r \in Slots, delivery \in Deliveries :
            (/\ inflight[r].op = "verify-email"
             /\ VerifyEmailSave(r, delivery)) =>
               /\ resp'.success
               /\ users'[inflight[r].id].isEmailVerified]_vars

\* one request was served: at time 1, when the code of ana's Register has
\* expired, a resend stored a new code, with which VerifyEmail finds her
\* account
C36_Witness ==
    /\ budget = MaxRequests - 1
    /\ now = 1
    /\ Len(users) = 1
    /\ ~users[1].isEmailVerified
    /\ resp.op = "resend-verification-code"
    /\ resp.success
    /\ users[1].emailVerificationExpires = now + HOUR
    /\ FindByVerificationCode("ANA@x.com", users[1].emailVerificationToken) = {1}

---------------------------------------------------------------------------
(* Who reads a watchlist *)

\* C37: a private watchlist is never returned to an account other than its
\* owner: reading a watchlist by id succeeds only for the owner or when
\* isPublic is true, the public listing contains only watchlists with
\* isPublic true, the per-user listing contains only watchlists owned by the
\* requester, and a refusal carries no watchlist
C37_PrivateWatchlistOnlyForOwner ==
    /\ [][\A token \in AuthHeaders, id \in WatchlistIds :
            GetWatchlist(token, id) =>
              IF resp'.success
              THEN /\ Authenticate(token) # 0
                   /\ id \in DOMAIN watchlists
                   /\ resp'.data = watchlists[id]
                   /\ watchlists[id].user = Authenticate(token) \/ watchlists[id].isPublic
              ELSE "data" \notin DOMAIN resp']_vars
    /\ [][\A token \in AuthHeaders :
            GetWatchlists(token) =>
              IF resp'.success
              THEN /\ Authenticate(token) # 0
                   /\ \A i \in DOMAIN resp'.data :
                        resp'.data[i].user = Authenticate(token)
              ELSE "data" \notin DOMAIN resp']_vars
    /\ [][\A page \in Pages, limit \in Limits :
            GetPublicWatchlists(page, limit) =>
              IF resp'.success
              THEN \A i \in DOMAIN resp'.data : resp'.data[i].isPublic
              ELSE "data" \notin DOMAIN resp']_vars

\* every well-formed id names a stored watchlist, and a read by id was
\* refused: the watchlist is private and the requester is not its owner
C37_Witness ==
    /\ resp.op = "watchlist"
    /\ resp.status = 404
    /\ Len(watchlists) = MaxWatchlists
    /\ \A id \in DOMAIN watchlists : watchlists[id] # Deleted
    /\ \E id \in DOMAIN watchlists : ~watchlists[id].isPublic

---------------------------------------------------------------------------
(* What the update of a review writes *)

\* C38: updating an existing review through POST /reviews leaves its owner,
\* its movie id and title, its likes and its reports as they are stored, and
\* the other reviews as they are; only the rating, the body and the spoiler
\* flag change, and only to the submitted values
C38_UpdateKeepsOwnerMovieLikesReports ==
    [][\A r \in Slots, id \in DOMAIN reviews :
         (/\ inflight[r].op = "review"
          /\ inflight[r].existing = id
          /\ SubmitReviewSave(r)) =>
            /\ resp'.status = 200
            /\ DOMAIN reviews' = DOMAIN reviews
            /\ \A other \in DOMAIN reviews \ {id} : reviews'[other] = reviews[other]
            /\ reviews'[id].user = reviews[id].user
            /\ reviews'[id].movieId = reviews[id].movieId
            /\ reviews'[id].title = reviews[id].title
            /\ reviews'[id].likes = reviews[id].likes
            /\ reviews'[id].reports = reviews[id].reports
            /\ reviews'[id].rating \in {reviews[id].rating, inflight[r].req.rating}
            /\ reviews'[id].review \in {reviews[id].review, inflight[r].req.review}
            /\ reviews'[id].spoiler \in {reviews[id].spoiler, inflight[r].req.spoiler}]_vars

\* ana's review, which ana and bob like, was updated to the rating 10 and
\* kept its two likes
C38_Witness ==
    /\ resp.op = "review"
    /\ resp.status = 200
    /\ reviews[1].user = 1
    /\ reviews[1].rating = 10
    /\ reviews[1].likes = <<1, 2>>

=============================================================================
